---------------------------- MODULE Spec2Model ----------------------------
(***************************************************************************)
(* A model of package_common: the eigenmode post-processing of            *)
(* utils_eig.py (sort_eig, screening_eig), the profile carrier of         *)
(* background_field.py (BackgroundField), the complex coordinate of       *)
(* spectral_deform.py, the basis functions of calc_chebyshev.py and       *)
(* calc_heinrichs.py, and the logger set-up of default_logger.py under    *)
(* concurrent invocations.                                                 *)
(*                                                                         *)
(* Numbers.  A float64 is a record [nan, v]: either the IEEE NaN or the    *)
(* finite value v (an integer-valued float; the model's inputs are such).  *)
(* A complex128 is a record [re, im] of two floats.  Arrays are sequences  *)
(* (index 1 of the model is index 0 of the code); a 2-D array is a         *)
(* sequence of rows.                                                       *)
(***************************************************************************)
EXTENDS Integers, Sequences, FiniteSets, TLC

VARIABLES
    component,      \* which part of the package this run exercises
    \* ---- sort_eig ----
    eigenvalues,    \* argument: complex[size]
    eigenvectors,   \* argument: complex[size, size]
    sort_pc,        \* "off" | "input" | "sorted" | "again" | "shuffled"
    matrix_eig,     \* the returned matrix of the first call
    perm,           \* the joint permutation of the shuffled second call
    matrix_eig2,    \* the returned matrix of the second call
    \* ---- screening_eig ----
    scr_pc,         \* "off" | "ready" | "returned" | "exit1" | "ValueError" | "again"
    scr_in,         \* the arguments as passed: [matrix, check, phys]
    scr_matrix,     \* the array matrix_eig (written in place)
    scr_check,      \* the array check
    scr_phys,       \* the arrays *phys_qtys (written in place)
    scr_log,        \* what the logger has emitted
    scr_ret,        \* the returned pair, <<>> while there is none
    scr_trace,      \* the events of the call, in program order
    scr_again,      \* the second call on the returned arrays: its mask and end
    \* ---- BackgroundField ----
    bf_pc,          \* "off" | "alive" | "exited"
    bf_field,       \* the instance: name, value, __value_d, __value_d2, tex
    bf_call,        \* the last access made on the instance, <<>> before any
    bf_out,         \* how that access ended, <<>> before any
    bf_log,         \* what the instance's logger has emitted
    \* ---- init_complex_coordinate, check_spectral_deform ----
    sd_pc,          \* "off" | "built"
    sd_coord,       \* the ComplexCoordinate returned by init_complex_coordinate
    sd_call,        \* the last call made on it, <<>> before any
    sd_out,         \* what that call returned, <<>> before any
    \* ---- chebyshev*, heinrichs* ----
    cb_pc,          \* "off" | "ready" | "returned"
    cb_n,           \* the argument n_degree
    cb_s,           \* the argument s_pos
    cb_call,        \* the function called last, "" before any
    cb_out,         \* what it returned
    \* ---- concurrent invocations and the logging module ----
    lg_pc,          \* per thread: where it is in its invocation
    lg_local,       \* per thread: its local variables
    lg_loggers,     \* logging's registry of named loggers (process-wide)
    lg_stream,      \* the records written to the console, in order
    \* ---- exe_yes_continue ----
    yn_pc,          \* "off" | "idle" | "input" | "exited"
    yn_count,       \* how many times the wrapped function has run
    yn_read,        \* the lines input() has returned, in order
    yn_trace,       \* the events of the call, in program order
    \* ---- input_value_within ----
    iv_pc,          \* "off" | "input" | "returned" | "exited"
    iv_args,        \* the arguments: min_value, max_value, cast
    iv_read,        \* the lines input() has returned, in order
    iv_trace,       \* the events of the call, in program order
    iv_ret,         \* the returned value
    \* ---- DefaultTimer ----
    tm_pc,          \* "off" | "alive"
    tm_now,         \* what perf_counter() returns now
    tm_timer,       \* the instance: __start_time, __elapsed_time, __split_time
    tm_calls,       \* the calls made on it, in order, with what they returned
    tm_log,         \* what the instance's logger has emitted
    \* ---- ProgressBar ----
    pb_pc,          \* "off" | "alive" | "exited"
    pb_now,         \* what perf_counter() returned last
    pb_bar,         \* the instance: __num_calc, __timer
    pb_calls,       \* the construction and the calls made, with their events
    \* ---- y_complex in binary64 ----
    b64_pc,         \* "off" | "built"
    b64_coord,      \* what the closure captures: y_start, y_end, alpha, beta_0, beta_1
    b64_call        \* the last call: s_pos and its outcome, a number or an exception

sortVars == <<eigenvalues, eigenvectors, sort_pc, matrix_eig, perm, matrix_eig2>>
screenVars ==
    <<scr_pc, scr_in, scr_matrix, scr_check, scr_phys, scr_log, scr_ret, scr_trace,
      scr_again>>
fieldVars == <<bf_pc, bf_field, bf_call, bf_out, bf_log>>
deformVars == <<sd_pc, sd_coord, sd_call, sd_out>>
basisVars == <<cb_pc, cb_n, cb_s, cb_call, cb_out>>
loggingVars == <<lg_pc, lg_local, lg_loggers, lg_stream>>
yesnoVars == <<yn_pc, yn_count, yn_read, yn_trace>>
coreVars ==
    <<sortVars, screenVars, fieldVars, deformVars, basisVars, loggingVars>>
inputVars == <<iv_pc, iv_args, iv_read, iv_trace, iv_ret>>
timerVars == <<tm_pc, tm_now, tm_timer, tm_calls, tm_log>>
progressVars == <<pb_pc, pb_now, pb_bar, pb_calls>>
binary64Vars == <<b64_pc, b64_coord, b64_call>>
toolVars == <<yesnoVars, inputVars, timerVars, progressVars, binary64Vars>>
vars == <<component, coreVars, toolVars>>

\* the parts a run does not exercise stay as they are here
SortOff ==
    /\ eigenvalues = <<>>
    /\ eigenvectors = <<>>
    /\ sort_pc = "off"
    /\ matrix_eig = <<>>
    /\ perm = <<>>
    /\ matrix_eig2 = <<>>

ScreenOff ==
    /\ scr_pc = "off"
    /\ scr_in = <<>>
    /\ scr_matrix = <<>>
    /\ scr_check = <<>>
    /\ scr_phys = <<>>
    /\ scr_log = <<>>
    /\ scr_ret = <<>>
    /\ scr_trace = <<>>
    /\ scr_again = <<>>

FieldOff ==
    /\ bf_pc = "off"
    /\ bf_field = <<>>
    /\ bf_call = <<>>
    /\ bf_out = <<>>
    /\ bf_log = <<>>

DeformOff ==
    /\ sd_pc = "off"
    /\ sd_coord = <<>>
    /\ sd_call = <<>>
    /\ sd_out = <<>>

BasisOff ==
    /\ cb_pc = "off"
    /\ cb_n = 0
    /\ cb_s = <<>>
    /\ cb_call = ""
    /\ cb_out = <<>>

LoggingOff ==
    /\ lg_pc = <<>>
    /\ lg_local = <<>>
    /\ lg_loggers = <<>>
    /\ lg_stream = <<>>

YesNoOff ==
    /\ yn_pc = "off"
    /\ yn_count = 0
    /\ yn_read = <<>>
    /\ yn_trace = <<>>

CoreOff ==
    SortOff /\ ScreenOff /\ FieldOff /\ DeformOff /\ BasisOff /\ LoggingOff

InputOff ==
    /\ iv_pc = "off"
    /\ iv_args = <<>>
    /\ iv_read = <<>>
    /\ iv_trace = <<>>
    /\ iv_ret = <<>>

TimerOff ==
    /\ tm_pc = "off"
    /\ tm_now = 0
    /\ tm_timer = <<>>
    /\ tm_calls = <<>>
    /\ tm_log = <<>>

ProgressOff ==
    /\ pb_pc = "off"
    /\ pb_now = 0
    /\ pb_bar = <<>>
    /\ pb_calls = <<>>

Binary64Off ==
    /\ b64_pc = "off"
    /\ b64_coord = <<>>
    /\ b64_call = <<>>

ToolsOff == YesNoOff /\ InputOff /\ TimerOff /\ ProgressOff /\ Binary64Off

(***************************************************************************)
(* Bounds and sample values                                                *)
(***************************************************************************)
MaxSize == 3

ReVals == {0, 1}
ImVals == {0, 1}
VecLabels == {0, 1}

Sizes == 1..MaxSize

(***************************************************************************)
(* float64 / complex128                                                    *)
(***************************************************************************)
F(v) == [nan |-> FALSE, v |-> v]

NaN == [nan |-> TRUE, v |-> 0]

Complex(re, im) == [re |-> re, im |-> im]

FAdd(a, b) == IF a.nan \/ b.nan THEN NaN ELSE F(a.v + b.v)

FSub(a, b) == IF a.nan \/ b.nan THEN NaN ELSE F(a.v - b.v)

FMul(a, b) == IF a.nan \/ b.nan THEN NaN ELSE F(a.v * b.v)

FLess(a, b) == ~a.nan /\ ~b.nan /\ a.v < b.v

FEq(a, b) == ~a.nan /\ ~b.nan /\ a.v = b.v

CAdd(x, y) == Complex(FAdd(x.re, y.re), FAdd(x.im, y.im))

CMul(x, y) == Complex(FSub(FMul(x.re, y.re), FMul(x.im, y.im)),
                      FAdd(FMul(x.re, y.im), FMul(x.im, y.re)))

ImagUnit == Complex(F(0), F(1))

\* numpy's "<" on complex128: real parts first, imaginary parts on a tie
ComplexLess(x, y) ==
    \/ FLess(x.re, y.re)
    \/ FEq(x.re, y.re) /\ FLess(x.im, y.im)

(***************************************************************************)
(* sort_eig                                                                *)
(***************************************************************************)
NumRows(m) == Len(m)

NumCols(m) == IF Len(m) = 0 THEN 0 ELSE Len(m[1])

Transpose(m, ncols) ==
    [c \in 1..ncols |-> [r \in 1..Len(m) |-> m[r][c]]]

\* tmp of lines 36-41: rows of Re(eigenvectors), rows of Im(eigenvectors),
\* the row of Re(eigenvalues), the row of Im(eigenvalues), all as complex128
BuildTmp(evals, evecs) ==
    LET n == Len(evals)
    IN  [r \in 1..(2*n + 2) |->
           [c \in 1..n |->
              IF r <= n THEN Complex(evecs[r][c].re, F(0))
              ELSE IF r <= 2*n THEN Complex(evecs[r - n][c].im, F(0))
              ELSE IF r = 2*n + 1 THEN Complex(evals[c].re, F(0))
              ELSE Complex(evals[c].im, F(0))]]

\* key=lambda x: x[2*size_matrix]
SortKey(x, n) == x[2*n + 1]

RECURSIVE InsertTiesFirst(_, _, _)
InsertTiesFirst(x, s, n) ==
    IF s = <<>> THEN <<x>>
    ELSE IF ~ComplexLess(SortKey(Head(s), n), SortKey(x, n)) THEN <<x>> \o s
    ELSE <<Head(s)>> \o InsertTiesFirst(x, Tail(s), n)

\* "<" of sorted() on two items: numpy's "<" on their keys
KeyLess(x, y, n) == ComplexLess(SortKey(x, n), SortKey(y, n))

\* the binary search of one insertion: the place of x in s[lo + 1 .. hi]
RECURSIVE Bisect(_, _, _, _, _)
Bisect(x, s, n, lo, hi) ==
    IF lo >= hi THEN lo
    ELSE LET p == lo + ((hi - lo) \div 2)
         IN  IF KeyLess(x, s[p + 1], n) THEN Bisect(x, s, n, lo, p)
             ELSE Bisect(x, s, n, p + 1, hi)

\* one insertion of sorted(): x goes where the binary search over the
\* elements already in order ends ("<" is the only comparison sorted() uses)
Insert(x, s, n) ==
    LET at == Bisect(x, s, n, 0, Len(s))
    IN  SubSeq(s, 1, at) \o <<x>> \o SubSeq(s, at + 1, Len(s))

\* the binary insertion sort of sorted(): the elements of rest are inserted
\* one by one into done
RECURSIVE SortedFrom(_, _, _)
SortedFrom(done, rest, n) ==
    IF rest = <<>> THEN done
    ELSE SortedFrom(Insert(Head(rest), done, n), Tail(rest), n)

\* the run sorted() finds at the head of the list: the second item is "<"
\* the first and every further one "<" the one before it (descending), or
\* no item is "<" the one before it
RunDescending(items, n) == Len(items) >= 2 /\ KeyLess(items[2], items[1], n)

RunLength(items, n) ==
    IF Len(items) < 2 THEN Len(items)
    ELSE LET runs == {k \in 2..Len(items) :
                         \A i \in 2..k :
                             KeyLess(items[i], items[i - 1], n) = RunDescending(items, n)}
         IN  CHOOSE k \in runs : \A j \in runs : j <= k

Reversed(s) == [i \in 1..Len(s) |-> s[Len(s) + 1 - i]]

SortedReversingRun(items, n) ==
    LET k == RunLength(items, n)
    IN  SortedFrom(Reversed(SubSeq(items, 1, k)), SubSeq(items, k + 1, Len(items)), n)

\* sorted(items, key=...) on a list of fewer than 64 items, as CPython's
\* list.sort does it: the run at the head is kept (a descending one
\* reversed) and the other items are inserted into it.  Stable and
\* ascending when "<" orders the keys; with a NaN key it does not.
Sorted(items, n) ==
    LET k == RunLength(items, n)
        run == SubSeq(items, 1, k)
    IN  SortedFrom(IF RunDescending(items, n) THEN Reversed(run) ELSE run,
                   SubSeq(items, k + 1, Len(items)), n)

AssembleRealOnly(tmp, n) ==
    [r \in 1..(n + 1) |->
       [c \in 1..n |->
          IF r <= n THEN tmp[r][c]
          ELSE CAdd(tmp[2*n + 1][c], CMul(ImagUnit, tmp[2*n + 2][c]))]]

\* lines 46-52: matrix_eig from the sorted tmp
Assemble(tmp, n) ==
    [r \in 1..(n + 1) |->
       [c \in 1..n |->
          IF r <= n THEN CAdd(tmp[r][c], CMul(ImagUnit, tmp[n + r][c]))
          ELSE CAdd(tmp[2*n + 1][c], CMul(ImagUnit, tmp[2*n + 2][c]))]]

sort_eig(evals, evecs) ==
    LET size_matrix == Len(evals)
        tmp == BuildTmp(evals, evecs)
        tmp_sorted == Sorted(Transpose(tmp, size_matrix), size_matrix)
        tmp2 == Transpose(tmp_sorted, 2*size_matrix + 2)
    IN  Assemble(tmp2, size_matrix)

(***************************************************************************)
(* screening_eig                                                           *)
(***************************************************************************)
PhysCounts == {0, 1, 2}
PhysDtypes == {"float64", "int64"}

\* np.nan stored into a complex128 array
CNaN == Complex(NaN, F(0))

\* What a call does that its caller or the console can observe, in program
\* order: a record written by the logger, sys.exit(code), a return, or an
\* exception leaving the function.
LogEvent(err) == [ev |-> "log", level |-> err.level, msg |-> err.msg, code |-> 0]

ExitEvent(code) == [ev |-> "exit", level |-> "", msg |-> "", code |-> code]

ReturnEvent == [ev |-> "return", level |-> "", msg |-> "", code |-> 0]

RaiseEvent(exc) == [ev |-> "raise", level |-> "", msg |-> exc, code |-> 0]

ErrInvalidShape == [level |-> "ERROR", msg |-> "Invalid shape of the input arrays"]

MatrixShapeBadNoPlusOne(matrix, check) ==
    \/ NumRows(matrix) # NumCols(matrix)
    \/ Len(check) # NumCols(matrix)

\* lines 97-98
MatrixShapeBad(matrix, check) ==
    \/ NumRows(matrix) # NumCols(matrix) + 1
    \/ Len(check) # NumCols(matrix)

\* lines 102-103
PhysShapeBad(phys, size_mat) ==
    \E k \in 1..Len(phys) : Len(phys[k].data) # size_mat

SetColumnLastRowOnly(matrix, i_mode, val) ==
    [r \in 1..Len(matrix) |->
       [c \in 1..Len(matrix[r]) |->
          IF c = i_mode /\ r = Len(matrix) THEN val ELSE matrix[r][c]]]

SetRow(matrix, i_mode, val) ==
    [r \in 1..Len(matrix) |->
       [c \in 1..Len(matrix[r]) |->
          IF r = i_mode THEN val ELSE matrix[r][c]]]

\* matrix_eig[:, i_mode] = val
SetColumn(matrix, i_mode, val) ==
    [r \in 1..Len(matrix) |->
       [c \in 1..Len(matrix[r]) |->
          IF c = i_mode THEN val ELSE matrix[r][c]]]

\* lines 113-114 for one mode: phys_qty[i_mode] = np.nan, array by array;
\* an integer array cannot hold NaN and the assignment raises ValueError
RECURSIVE PhysLoop(_, _, _)
PhysLoop(phys, k, i_mode) ==
    IF k > Len(phys) THEN [phys |-> phys, raised |-> FALSE]
    ELSE IF phys[k].dtype = "int64" THEN [phys |-> phys, raised |-> TRUE]
    ELSE PhysLoop([phys EXCEPT ![k].data[i_mode] = NaN], k + 1, i_mode)

RECURSIVE ModeLoopFirstOnly(_, _, _, _)
ModeLoopFirstOnly(matrix, phys, check, i_mode) ==
    IF i_mode > NumCols(matrix)
    THEN [matrix |-> matrix, phys |-> phys, raised |-> FALSE]
    ELSE IF check[i_mode] THEN ModeLoopFirstOnly(matrix, phys, check, i_mode + 1)
    ELSE LET pl == PhysLoop(phys, 1, i_mode)
         IN  [matrix |-> SetColumn(matrix, i_mode, CNaN), phys |-> pl.phys,
              raised |-> pl.raised]

\* lines 109-114
RECURSIVE ModeLoop(_, _, _, _)
ModeLoop(matrix, phys, check, i_mode) ==
    IF i_mode > NumCols(matrix)
    THEN [matrix |-> matrix, phys |-> phys, raised |-> FALSE]
    ELSE IF check[i_mode] THEN ModeLoop(matrix, phys, check, i_mode + 1)
    ELSE LET written == SetColumn(matrix, i_mode, CNaN)
             pl == PhysLoop(phys, 1, i_mode)
         IN  IF pl.raised
             THEN [matrix |-> written, phys |-> pl.phys, raised |-> TRUE]
             ELSE ModeLoop(written, pl.phys, check, i_mode + 1)

screening_eig_validating_last(matrix, check, phys) ==
    IF MatrixShapeBad(matrix, check)
    THEN [pc |-> "exit1", matrix |-> matrix, phys |-> phys,
          log |-> <<ErrInvalidShape>>, ret |-> <<>>,
          trace |-> <<LogEvent(ErrInvalidShape), ExitEvent(1)>>]
    ELSE LET done == ModeLoop(matrix, phys, check, 1)
         IN  IF PhysShapeBad(phys, NumCols(matrix))
             THEN [pc |-> "exit1", matrix |-> done.matrix, phys |-> done.phys,
                   log |-> <<ErrInvalidShape>>, ret |-> <<>>,
          trace |-> <<LogEvent(ErrInvalidShape), ExitEvent(1)>>]
             ELSE [pc |-> "returned", matrix |-> done.matrix, phys |-> done.phys,
                   log |-> <<>>,
                   ret |-> [matrix |-> done.matrix, phys |-> done.phys],
                   trace |-> <<ReturnEvent>>]

\* the whole call: the state of the arrays, the log and the way it ended
screening_eig(matrix, check, phys) ==
    IF MatrixShapeBad(matrix, check) \/ PhysShapeBad(phys, NumCols(matrix))
    THEN [pc |-> "exit1", matrix |-> matrix, phys |-> phys,
          log |-> <<ErrInvalidShape>>, ret |-> <<>>,
          trace |-> <<LogEvent(ErrInvalidShape), ExitEvent(1)>>]
    ELSE LET done == ModeLoop(matrix, phys, check, 1)
         IN  IF done.raised
             THEN [pc |-> "ValueError", matrix |-> done.matrix,
                   phys |-> done.phys, log |-> <<>>, ret |-> <<>>,
                   trace |-> <<RaiseEvent("ValueError")>>]
             ELSE [pc |-> "returned", matrix |-> done.matrix,
                   phys |-> done.phys, log |-> <<>>,
                   ret |-> [matrix |-> done.matrix, phys |-> done.phys],
                   trace |-> <<ReturnEvent>>]

\* Inputs: arrays of every shape up to the bound; the entries are told apart
\* by their position, the k-th physical-quantity array carries id k.
ScreenMatrix(rows, cols) ==
    [r \in 1..rows |-> [c \in 1..cols |-> Complex(F(r), F(c))]]

PhysArray(k, len, dtype) ==
    [id |-> k, dtype |-> dtype, data |-> [i \in 1..len |-> F(10 * k + i)]]

InitScreen ==
    /\ component = "screen"
    /\ SortOff
    /\ FieldOff
    /\ DeformOff
    /\ BasisOff
    /\ LoggingOff
    /\ ToolsOff
    /\ \E rows \in 1..(MaxSize + 1), cols \in 0..MaxSize :
           scr_matrix = ScreenMatrix(rows, cols)
    /\ \E n \in 0..MaxSize : scr_check \in [1..n -> BOOLEAN]
    /\ \E count \in PhysCounts :
       \E lens \in [1..count -> 1..MaxSize], dtypes \in [1..count -> PhysDtypes] :
           scr_phys = [k \in 1..count |-> PhysArray(k, lens[k], dtypes[k])]
    /\ scr_in = [matrix |-> scr_matrix, check |-> scr_check, phys |-> scr_phys]
    /\ scr_pc = "ready"
    /\ scr_log = <<>>
    /\ scr_ret = <<>>
    /\ scr_trace = <<>>
    /\ scr_again = <<>>

\* matrix_eig, phys_qtys = screening_eig(matrix_eig, check, *phys_qtys)
ScreeningEigCall ==
    /\ scr_pc = "ready"
    /\ LET out == screening_eig(scr_matrix, scr_check, scr_phys)
       IN  /\ scr_pc' = out.pc
           /\ scr_matrix' = out.matrix
           /\ scr_phys' = out.phys
           /\ scr_log' = scr_log \o out.log
           /\ scr_ret' = out.ret
           /\ scr_trace' = scr_trace \o out.trace
    /\ UNCHANGED <<component, scr_in, scr_check, scr_again>>
    /\ UNCHANGED <<sortVars, fieldVars, deformVars, basisVars, loggingVars, toolVars>>

\* screening_eig(matrix_eig, check_2, *phys_qtys) on the arrays the first
\* call returned, which are the arrays it was passed; scr_ret keeps the
\* values they had at the first return
ScreeningEigAgain ==
    /\ scr_pc = "returned"
    /\ \E check_2 \in [1..Len(scr_check) -> BOOLEAN] :
        LET out == screening_eig(scr_matrix, check_2, scr_phys)
        IN  /\ scr_pc' = "again"
            /\ scr_matrix' = out.matrix
            /\ scr_phys' = out.phys
            /\ scr_log' = scr_log \o out.log
            /\ scr_trace' = scr_trace \o out.trace
            /\ scr_again' = [check |-> check_2, pc |-> out.pc, ret |-> out.ret]
    /\ UNCHANGED <<component, scr_in, scr_check, scr_ret>>
    /\ UNCHANGED <<sortVars, fieldVars, deformVars, basisVars, loggingVars, toolVars>>

NextScreen == ScreeningEigCall \/ ScreeningEigAgain

SpecScreen == InitScreen /\ [][NextScreen]_vars

(***************************************************************************)
(* BackgroundField                                                         *)
(***************************************************************************)
\* The closures given to the constructor, named by their lambda bodies (the
\* two profiles of the class docstring); "None" is the argument left out.
Profiles ==
    { [name |-> "linear", value |-> "x", d |-> "1", d2 |-> "0"],
      [name |-> "parabola", value |-> "x**2", d |-> "2*x", d2 |-> "2"] }

\* calling a closure on a complex argument
Apply(func, z) ==
    CASE func = "x" -> z
      [] func = "x**2" -> CMul(z, z)
      [] func = "2*x" -> CMul(Complex(F(2), F(0)), z)
      [] func = "2" -> Complex(F(2), F(0))
      [] func = "1" -> Complex(F(1), F(0))
      [] func = "0" -> Complex(F(0), F(0))

\* BackgroundField.__init__
NewBackgroundField(name, value, value_d, value_d2, tex) ==
    [name |-> name, value |-> value, value_d |-> value_d, value_d2 |-> value_d2,
     tex |-> IF tex # "None" THEN tex ELSE name]

\* the arguments x of the model: Python and numpy values with their type
XArgs ==
    {[type |-> t, v |-> v] : t \in {"int", "float"}, v \in {-1, 0, 2}}
        \cup {[type |-> "bool", v |-> 1],
              [type |-> "str", v |-> 0],
              [type |-> "NoneType", v |-> 0],
              [type |-> "complex", v |-> 1],
              [type |-> "numpy.float64", v |-> 2],
              [type |-> "numpy.int64", v |-> 2]}

\* isinstance(x, (float, int)); bool is a subclass of int and numpy.float64
\* a subclass of float, numpy.int64 is a subclass of neither
IsFloatOrInt(x) == x.type \in {"int", "float", "bool", "numpy.float64"}

ComplexifySwapped(x) == Complex(F(0), F(x.v))

\* complex(x, 0)
Complexify(x) == Complex(F(x.v), F(0))

ErrInvalidType == [level |-> "ERROR", msg |-> "Invalid type of the argument."]

ErrNotSet == [level |-> "ERROR", msg |-> "This attribute has not been set."]

NoFloat == F(0)

\* the ways an access ends
ReturnedFunc(func) ==
    [kind |-> "returned", holds |-> "func", func |-> func, num |-> NoFloat,
     log |-> <<>>, trace |-> <<ReturnEvent>>]

ReturnedFloat(num) ==
    [kind |-> "returned", holds |-> "float", func |-> "", num |-> num,
     log |-> <<>>, trace |-> <<ReturnEvent>>]

ExitOneBeforeLogging(err) ==
    [kind |-> "exit1", holds |-> "none", func |-> "", num |-> NoFloat,
     log |-> <<>>, trace |-> <<ExitEvent(1)>>]

\* logger.error(...) followed by sys.exit(1)
ExitOne(err) ==
    [kind |-> "exit1", holds |-> "none", func |-> "", num |-> NoFloat,
     log |-> <<err>>, trace |-> <<LogEvent(err), ExitEvent(1)>>]

\* lines 99-103
r_value(field, x) ==
    IF ~IsFloatOrInt(x) THEN ExitOne(ErrInvalidType)
    ELSE ReturnedFloat(Apply(field.value, Complexify(x)).re)

\* lines 121-125
value_d(field) ==
    IF field.value_d # "None" THEN ReturnedFunc(field.value_d)
    ELSE ExitOne(ErrNotSet)

\* lines 150-154
r_value_d(field, x) ==
    IF ~IsFloatOrInt(x) THEN ExitOne(ErrInvalidType)
    ELSE LET got == value_d(field)
         IN  IF got.kind = "exit1" THEN got
             ELSE ReturnedFloat(Apply(got.func, Complexify(x)).re)

value_d2_requiring_value_d(field) ==
    IF field.value_d # "None" /\ field.value_d2 # "None"
    THEN ReturnedFunc(field.value_d2)
    ELSE ExitOne(ErrNotSet)

\* lines 173-177
value_d2(field) ==
    IF field.value_d2 # "None" THEN ReturnedFunc(field.value_d2)
    ELSE ExitOne(ErrNotSet)

\* lines 202-206
r_value_d2(field, x) ==
    IF ~IsFloatOrInt(x) THEN ExitOne(ErrInvalidType)
    ELSE LET got == value_d2(field)
         IN  IF got.kind = "exit1" THEN got
             ELSE ReturnedFloat(Apply(got.func, Complexify(x)).re)

InitField ==
    /\ component = "field"
    /\ SortOff
    /\ ScreenOff
    /\ DeformOff
    /\ BasisOff
    /\ LoggingOff
    /\ ToolsOff
    /\ \E prof \in Profiles, with_d \in BOOLEAN, with_d2 \in BOOLEAN,
          tex \in {"None", "$U$"} :
           bf_field = NewBackgroundField(prof.name, prof.value,
                                         IF with_d THEN prof.d ELSE "None",
                                         IF with_d2 THEN prof.d2 ELSE "None",
                                         tex)
    /\ bf_pc = "alive"
    /\ bf_call = <<>>
    /\ bf_out = <<>>
    /\ bf_log = <<>>

\* an access that calls sys.exit ends the process
Finish(call, out) ==
    /\ bf_call' = call
    /\ bf_out' = out
    /\ bf_log' = bf_log \o out.log
    /\ bf_pc' = IF out.kind = "returned" THEN "alive" ELSE "exited"
    /\ UNCHANGED <<component, bf_field>>
    /\ UNCHANGED <<sortVars, screenVars, deformVars, basisVars, loggingVars, toolVars>>

NoArg == [type |-> "none", v |-> 0]

CallRValue ==
    /\ bf_pc = "alive"
    /\ \E x \in XArgs : Finish([op |-> "r_value", x |-> x], r_value(bf_field, x))

GetValueD ==
    /\ bf_pc = "alive"
    /\ Finish([op |-> "value_d", x |-> NoArg], value_d(bf_field))

CallRValueD ==
    /\ bf_pc = "alive"
    /\ \E x \in XArgs : Finish([op |-> "r_value_d", x |-> x], r_value_d(bf_field, x))

GetValueD2 ==
    /\ bf_pc = "alive"
    /\ Finish([op |-> "value_d2", x |-> NoArg], value_d2(bf_field))

CallRValueD2 ==
    /\ bf_pc = "alive"
    /\ \E x \in XArgs : Finish([op |-> "r_value_d2", x |-> x], r_value_d2(bf_field, x))

NextField == CallRValue \/ GetValueD \/ CallRValueD \/ GetValueD2 \/ CallRValueD2

SpecField == InitField /\ [][NextField]_vars

(***************************************************************************)
(* Inputs of sort_eig: every eigenvalue vector over the sample values and  *)
(* eigenvector matrices whose column c is generated from a label.          *)
(***************************************************************************)
EigVals == {Complex(F(a), F(b)) : a \in ReVals, b \in ImVals}

EigVecColumn(label, r) == Complex(F(label + r), F(label * r))

EigVecMatrix(labels, n) ==
    [r \in 1..n |-> [c \in 1..n |-> EigVecColumn(labels[c], r)]]

Perms(n) == {p \in [1..n -> 1..n] : \A i, j \in 1..n : p[i] = p[j] => i = j}

Identity(n) == [i \in 1..n |-> i]

ShuffleVals(evals, p) == [j \in 1..Len(evals) |-> evals[p[j]]]

ShuffleCols(m, p) == [r \in 1..Len(m) |-> [j \in 1..Len(p) |-> m[r][p[j]]]]

InitSort ==
    /\ component = "sort"
    /\ \E n \in Sizes :
         /\ eigenvalues \in [1..n -> EigVals]
         /\ \E labels \in [1..n -> VecLabels] :
              eigenvectors = EigVecMatrix(labels, n)
         /\ perm = Identity(n)
    /\ sort_pc = "input"
    /\ matrix_eig = <<>>
    /\ matrix_eig2 = <<>>
    /\ ScreenOff
    /\ FieldOff
    /\ DeformOff
    /\ BasisOff
    /\ LoggingOff
    /\ ToolsOff

\* matrix_eig = sort_eig(eigenvalues, eigenvectors)
SortEigCall ==
    /\ sort_pc = "input"
    /\ matrix_eig' = sort_eig(eigenvalues, eigenvectors)
    /\ sort_pc' = "sorted"
    /\ UNCHANGED <<component, eigenvalues, eigenvectors, perm, matrix_eig2>>
    /\ UNCHANGED <<screenVars, fieldVars, deformVars, basisVars, loggingVars, toolVars>>

\* sort_eig(M[n, :], M[0:n, :]) on the matrix M just returned
SortEigAgain ==
    /\ sort_pc = "sorted"
    /\ LET n == Len(eigenvalues)
       IN  matrix_eig2' = sort_eig(matrix_eig[n + 1], SubSeq(matrix_eig, 1, n))
    /\ sort_pc' = "again"
    /\ UNCHANGED <<component, eigenvalues, eigenvectors, perm, matrix_eig>>
    /\ UNCHANGED <<screenVars, fieldVars, deformVars, basisVars, loggingVars, toolVars>>

\* sort_eig on the same modes given in another order
SortEigShuffled ==
    /\ sort_pc = "sorted"
    /\ \E p \in Perms(Len(eigenvalues)) :
         /\ perm' = p
         /\ matrix_eig2' = sort_eig(ShuffleVals(eigenvalues, p),
                                    ShuffleCols(eigenvectors, p))
    /\ sort_pc' = "shuffled"
    /\ UNCHANGED <<component, eigenvalues, eigenvectors, matrix_eig>>
    /\ UNCHANGED <<screenVars, fieldVars, deformVars, basisVars, loggingVars, toolVars>>

NextSort == SortEigCall \/ SortEigAgain \/ SortEigShuffled

SpecSort == InitSort /\ [][NextSort]_vars

(***************************************************************************)
(* Exact numbers.  The floats of the coordinate map and of the basis       *)
(* functions are modelled by the rational numbers they stand for: a record *)
(* [n, d] in lowest terms with d > 0.  A Python complex over such floats   *)
(* is a record [re, im].                                                   *)
(***************************************************************************)
Abs(x) == IF x < 0 THEN -x ELSE x

RECURSIVE GCD(_, _)
GCD(a, b) == IF b = 0 THEN a ELSE GCD(b, a % b)

Rat(n, d) ==
    LET g == GCD(Abs(n), Abs(d))
        sgn == IF d < 0 THEN -1 ELSE 1
    IN  [n |-> sgn * (n \div g), d |-> sgn * (d \div g)]

RatInt(k) == [n |-> k, d |-> 1]

RatAdd(a, b) ==
    IF a.d = b.d THEN Rat(a.n + b.n, a.d)
    ELSE Rat(a.n * b.d + b.n * a.d, a.d * b.d)

RatNeg(a) == [n |-> -a.n, d |-> a.d]

RatSub(a, b) == RatAdd(a, RatNeg(b))

RatMul(a, b) ==
    IF a.d = 1 /\ b.d = 1 THEN RatInt(a.n * b.n)
    ELSE Rat(a.n * b.n, a.d * b.d)

\* a / b for b # 0
RatDiv(a, b) == Rat(a.n * b.d, a.d * b.n)

RatLess(a, b) == a.n * b.d < b.n * a.d

\* complex(re, im)
CQ(re, im) == [re |-> re, im |-> im]

\* a real number where Python widens it to complex
CQReal(a) == CQ(a, RatInt(0))

CQAdd(z, w) == CQ(RatAdd(z.re, w.re), RatAdd(z.im, w.im))

CQSub(z, w) == CQ(RatSub(z.re, w.re), RatSub(z.im, w.im))

CQMul(z, w) ==
    CQ(RatSub(RatMul(z.re, w.re), RatMul(z.im, w.im)),
       RatAdd(RatMul(z.re, w.im), RatMul(z.im, w.re)))

\* z / a for a real a # 0
CQDivReal(z, a) == CQ(RatDiv(z.re, a), RatDiv(z.im, a))

(***************************************************************************)
(* init_complex_coordinate, check_spectral_deform                          *)
(***************************************************************************)
\* the values given to alpha, beta_0 and beta_1
DeformParams == {Rat(-1, 1), Rat(0, 1), Rat(1, 2)}

\* the values given to y_start and to y_end
DeformStarts == {Rat(-1, 1), Rat(0, 1)}

DeformEnds == {Rat(1, 1), Rat(3, 2)}

\* the points s_pos at which the closures are called
DeformPoints ==
    {CQ(RatInt(0), RatInt(0)), CQ(RatInt(1), RatInt(0)), CQ(RatInt(-1), RatInt(0)),
     CQ(Rat(1, 2), RatInt(0)), CQ(RatInt(0), RatInt(1)), CQ(Rat(-1, 2), RatInt(1))}

\* a closure of init_complex_coordinate: the def and the arguments it captures
DeformClosure(fn, y_start, y_end, alpha, beta_0, beta_1) ==
    [fn |-> fn, y_start |-> y_start, y_end |-> y_end,
     alpha |-> alpha, beta_0 |-> beta_0, beta_1 |-> beta_1]

y_complex_without_beta(c, s_pos) ==
    CQSub(CQAdd(CQReal(c.y_start),
                CQDivReal(CQMul(CQReal(RatSub(c.y_end, c.y_start)),
                                CQAdd(s_pos, CQReal(RatInt(1)))),
                          RatInt(2))),
          CQMul(CQ(c.alpha, RatInt(1)),
                CQSub(CQMul(s_pos, s_pos), CQReal(RatInt(1)))))

\* lines 116-120
y_complex(c, s_pos) ==
    CQSub(CQAdd(CQReal(c.y_start),
                CQDivReal(CQMul(CQReal(RatSub(c.y_end, c.y_start)),
                                CQAdd(s_pos, CQReal(RatInt(1)))),
                          RatInt(2))),
          CQMul(CQMul(CQ(c.alpha, RatInt(1)),
                      CQAdd(CQReal(c.beta_0), CQMul(CQReal(c.beta_1), s_pos))),
                CQSub(CQMul(s_pos, s_pos), CQReal(RatInt(1)))))

y_complex_d_without_minus_one(c, s_pos) ==
    CQSub(CQReal(RatDiv(RatSub(c.y_end, c.y_start), RatInt(2))),
          CQMul(CQ(c.alpha, RatInt(1)),
                CQAdd(CQMul(CQReal(c.beta_1),
                            CQMul(CQReal(RatInt(3)), CQMul(s_pos, s_pos))),
                      CQMul(CQReal(RatMul(RatInt(2), c.beta_0)), s_pos))))

\* lines 122-126
y_complex_d(c, s_pos) ==
    CQSub(CQReal(RatDiv(RatSub(c.y_end, c.y_start), RatInt(2))),
          CQMul(CQ(c.alpha, RatInt(1)),
                CQAdd(CQMul(CQReal(c.beta_1),
                            CQSub(CQMul(CQReal(RatInt(3)), CQMul(s_pos, s_pos)),
                                  CQReal(RatInt(1)))),
                      CQMul(CQReal(RatMul(RatInt(2), c.beta_0)), s_pos))))

\* lines 128-131
y_complex_d2(c, s_pos) ==
    CQMul(CQMul(CQReal(RatInt(-2)), CQ(c.alpha, RatInt(1))),
          CQAdd(CQMul(CQReal(RatMul(RatInt(3), c.beta_1)), s_pos),
                CQReal(c.beta_0)))

\* calling a closure
DeformApply(c, s_pos) ==
    CASE c.fn = "y_complex" -> y_complex(c, s_pos)
      [] c.fn = "y_complex_d" -> y_complex_d(c, s_pos)
      [] c.fn = "y_complex_d2" -> y_complex_d2(c, s_pos)

\* line 108: the three parameters, formatted in this order
DeformName(alpha, beta_0, beta_1) ==
    <<"[a", alpha, "b", beta_0, "b", beta_1, "]">>

\* ComplexCoordinate.__init__: params, then BackgroundField.__init__
ComplexCoordinate(name, value, d, d2, tex, params) ==
    [name |-> name, value |-> value, value_d |-> d, value_d2 |-> d2,
     tex |-> IF tex # "None" THEN tex ELSE name, params |-> params]

\* lines 108-137; the dict params keeps its insertion order
init_complex_coordinate(y_start, y_end, alpha, beta_0, beta_1) ==
    ComplexCoordinate(
        DeformName(alpha, beta_0, beta_1),
        DeformClosure("y_complex", y_start, y_end, alpha, beta_0, beta_1),
        DeformClosure("y_complex_d", y_start, y_end, alpha, beta_0, beta_1),
        DeformClosure("y_complex_d2", y_start, y_end, alpha, beta_0, beta_1),
        "None",
        << [key |-> "alpha", value |-> alpha],
           [key |-> "beta_0", value |-> beta_0],
           [key |-> "beta_1", value |-> beta_1] >>)

check_loop_first_only(params, i) ==
    IF i > Len(params) THEN FALSE
    ELSE params[i].value # RatInt(0)

\* lines 158-164: the loop over params.values() from the i-th value on
RECURSIVE check_loop(_, _)
check_loop(params, i) ==
    IF i > Len(params) THEN FALSE
    ELSE IF params[i].value # RatInt(0) THEN TRUE
    ELSE check_loop(params, i + 1)

\* lines 156-164
check_spectral_deform(complex_coordinate) ==
    check_loop(complex_coordinate.params, 1)

InitDeform ==
    /\ component = "deform"
    /\ SortOff
    /\ ScreenOff
    /\ FieldOff
    /\ BasisOff
    /\ LoggingOff
    /\ ToolsOff
    /\ \E y_start \in DeformStarts, y_end \in DeformEnds,
          alpha \in DeformParams, beta_0 \in DeformParams, beta_1 \in DeformParams :
           sd_coord = init_complex_coordinate(y_start, y_end, alpha, beta_0, beta_1)
    /\ sd_pc = "built"
    /\ sd_call = <<>>
    /\ sd_out = <<>>

NoPoint == CQ(RatInt(0), RatInt(0))

DeformReturn(op, s_pos, holds, z, b) ==
    /\ sd_pc = "built"
    /\ sd_call' = [op |-> op, s |-> s_pos]
    /\ sd_out' = [holds |-> holds, z |-> z, b |-> b]
    /\ UNCHANGED <<component, sd_pc, sd_coord>>
    /\ UNCHANGED <<sortVars, screenVars, fieldVars, basisVars, loggingVars, toolVars>>

\* complex_coordinate.value(s_pos)
DeformValue ==
    \E s_pos \in DeformPoints :
        DeformReturn("value", s_pos, "complex",
                     DeformApply(sd_coord.value, s_pos), FALSE)

\* complex_coordinate.value_d(s_pos)
DeformValueD ==
    \E s_pos \in DeformPoints :
        DeformReturn("value_d", s_pos, "complex",
                     DeformApply(sd_coord.value_d, s_pos), FALSE)

\* complex_coordinate.value_d2(s_pos)
DeformValueD2 ==
    \E s_pos \in DeformPoints :
        DeformReturn("value_d2", s_pos, "complex",
                     DeformApply(sd_coord.value_d2, s_pos), FALSE)

\* check_spectral_deform(complex_coordinate)
CheckSpectralDeform ==
    DeformReturn("check_spectral_deform", NoPoint, "bool", NoPoint,
                 check_spectral_deform(sd_coord))

NextDeform == DeformValue \/ DeformValueD \/ DeformValueD2 \/ CheckSpectralDeform

SpecDeform == InitDeform /\ [][NextDeform]_vars

(***************************************************************************)
(* The floats of the basis functions.  A float64 result is a record        *)
(* [k, a, b, q]:                                                           *)
(*   "num"    the exact value a + b*sqrt(q), a, b, q rational (the model   *)
(*            leaves out the rounding of finite results);                  *)
(*   "nan", "inf" (sign in a)  the IEEE values;                            *)
(*   "eps"    a*sin(pi_f), pi_f the float next to pi: np.acos(-1.0) gives  *)
(*            pi_f and np.sin(pi_f) is 1.22e-16, tiny but not zero;        *)
(*   "eps2"   a*sin(pi_f)**2;                                              *)
(*   "approx" a finite float next to a, carrying rounding error;           *)
(*   "junk"   a finite float whose size is set by rounding error;          *)
(*   "any"    a float of which nothing is known.                           *)
(***************************************************************************)
Zero == RatInt(0)

Exact(a) == [k |-> "num", a |-> a, b |-> Zero, q |-> Zero]

Num(a, b, q) == IF b = Zero THEN Exact(a) ELSE [k |-> "num", a |-> a, b |-> b, q |-> q]

FlNaN == [k |-> "nan", a |-> Zero, b |-> Zero, q |-> Zero]

FlInf(sgn) == [k |-> "inf", a |-> RatInt(sgn), b |-> Zero, q |-> Zero]

Eps(a) == IF a = Zero THEN Exact(Zero) ELSE [k |-> "eps", a |-> a, b |-> Zero, q |-> Zero]

Eps2(a) == IF a = Zero THEN Exact(Zero) ELSE [k |-> "eps2", a |-> a, b |-> Zero, q |-> Zero]

Approx(a) == [k |-> "approx", a |-> a, b |-> Zero, q |-> Zero]

Junk == [k |-> "junk", a |-> Zero, b |-> Zero, q |-> Zero]

AnyFloat == [k |-> "any", a |-> Zero, b |-> Zero, q |-> Zero]

IsZero(x) == x = Exact(Zero)

IsRational(x) == x.k = "num" /\ x.b = Zero

\* np.isfinite
IsFinite(x) == x.k \in {"num", "eps", "eps2", "approx", "junk"}

Sign(a) == IF a.n < 0 THEN -1 ELSE 1

\* -x
FlNeg(x) ==
    IF x.k \in {"nan", "junk", "any"} THEN x
    ELSE [x EXCEPT !.a = RatNeg(@), !.b = RatNeg(@)]

\* x * y
FlMul(x, y) ==
    IF x.k = "nan" \/ y.k = "nan" THEN FlNaN
    ELSE IF x.k = "any" \/ y.k = "any" THEN AnyFloat
    ELSE IF x.k = "inf" \/ y.k = "inf"
    THEN LET o == IF x.k = "inf" THEN y ELSE x
         IN  IF IsZero(o) THEN FlNaN
             ELSE IF o.k = "inf" \/ IsRational(o) \/ o.k \in {"eps", "eps2"}
             THEN FlInf(Sign(x.a) * Sign(y.a))
             ELSE AnyFloat
    ELSE IF IsZero(x) \/ IsZero(y) THEN Exact(Zero)
    ELSE IF x.k = "num" /\ y.k = "num"
    THEN LET q == IF x.b # Zero THEN x.q ELSE y.q
         IN  Num(RatAdd(RatMul(x.a, y.a), RatMul(RatMul(x.b, y.b), q)),
                 RatAdd(RatMul(x.a, y.b), RatMul(x.b, y.a)), q)
    ELSE IF IsRational(x) /\ y.k \in {"eps", "eps2", "approx"}
    THEN [y EXCEPT !.a = RatMul(x.a, @)]
    ELSE IF IsRational(y) /\ x.k \in {"eps", "eps2", "approx"}
    THEN [x EXCEPT !.a = RatMul(@, y.a)]
    ELSE IF x.k = "eps" /\ y.k = "eps" THEN Eps2(RatMul(x.a, y.a))
    ELSE IF x.k = "approx" /\ y.k = "approx" THEN Approx(RatMul(x.a, y.a))
    ELSE Junk

\* x + y
FlAdd(x, y) ==
    IF x.k = "nan" \/ y.k = "nan" THEN FlNaN
    ELSE IF x.k = "any" \/ y.k = "any" THEN AnyFloat
    ELSE IF x.k = "inf" /\ y.k = "inf" THEN (IF x.a = y.a THEN x ELSE FlNaN)
    ELSE IF x.k = "inf" THEN x
    ELSE IF y.k = "inf" THEN y
    ELSE IF IsZero(x) THEN y
    ELSE IF IsZero(y) THEN x
    ELSE IF x.k = "num" /\ y.k = "num"
    THEN Num(RatAdd(x.a, y.a), RatAdd(x.b, y.b), IF x.b # Zero THEN x.q ELSE y.q)
    ELSE IF (IsRational(x) \/ x.k = "approx") /\ (IsRational(y) \/ y.k = "approx")
    THEN Approx(RatAdd(x.a, y.a))
    ELSE IF (IsRational(x) \/ x.k = "approx") /\ y.k \in {"eps", "eps2"}
    THEN Approx(x.a)
    ELSE IF (IsRational(y) \/ y.k = "approx") /\ x.k \in {"eps", "eps2"}
    THEN Approx(y.a)
    ELSE Junk

\* x - y
FlSub(x, y) == FlAdd(x, FlNeg(y))

\* x / y on numpy floats: a zero divisor gives nan or inf, no exception
FlDiv(x, y) ==
    IF x.k = "nan" \/ y.k = "nan" THEN FlNaN
    ELSE IF x.k = "any" \/ y.k = "any" THEN AnyFloat
    ELSE IF y.k = "inf" THEN (IF x.k = "inf" THEN FlNaN ELSE Exact(Zero))
    ELSE IF x.k = "inf"
    THEN (IF IsZero(y) THEN x
          ELSE IF IsRational(y) \/ y.k \in {"eps", "eps2"}
          THEN FlInf(Sign(x.a) * Sign(y.a))
          ELSE AnyFloat)
    ELSE IF IsZero(y)
    THEN (IF IsZero(x) THEN FlNaN
          ELSE IF IsRational(x) \/ x.k \in {"eps", "eps2"} THEN FlInf(Sign(x.a))
          ELSE AnyFloat)
    ELSE IF y.k = "num"
    THEN LET norm == RatSub(RatMul(y.a, y.a), RatMul(RatMul(y.b, y.b), y.q))
         IN  IF norm = Zero THEN AnyFloat
             ELSE FlMul(FlMul(x, Num(y.a, RatNeg(y.b), y.q)),
                        Exact(RatDiv(RatInt(1), norm)))
    ELSE IF IsZero(x) /\ y.k \in {"eps", "eps2"} THEN Exact(Zero)
    ELSE IF x.k = "eps" /\ y.k = "eps" THEN Approx(RatDiv(x.a, y.a))
    ELSE IF y.k \in {"eps", "eps2"} THEN Junk
    ELSE IF y.k = "approx" /\ y.a # Zero /\ (IsRational(x) \/ x.k = "approx")
    THEN Approx(RatDiv(x.a, y.a))
    ELSE IF y.k = "approx" /\ y.a # Zero THEN Junk
    ELSE AnyFloat

(***************************************************************************)
(* calc_chebyshev.py, calc_heinrichs.py                                    *)
(***************************************************************************)
MaxDegree == 4

\* the real points s_pos of the model, all in the domain [-1, 1]
BasisPoints ==
    {RatInt(-1), Rat(-1, 2), RatInt(0), Rat(1, 4), Rat(1, 2), RatInt(1)}

\* the n-th term, n >= 0, of the three-term recurrence
\* p(k+1) = 2 s p(k) - p(k-1) from p(0) = prev and p(1) = cur; a denominator
\* is never 0: reading cur.d has each term computed before the next one
RECURSIVE ThreeTerm(_, _, _, _)
ThreeTerm(n, s, prev, cur) ==
    IF n = 0 \/ cur.d = 0 THEN prev
    ELSE ThreeTerm(n - 1, s, cur, RatSub(RatMul(RatMul(RatInt(2), s), cur), prev))

\* cos(n*arccos s) and sin(n*arccos s)/sin(arccos s) as polynomials in s
CosMultiple(n, s) == ThreeTerm(n, s, RatInt(1), s)

SinRatio(n, s) == ThreeTerm(n, s, Zero, RatInt(1))

ISqrt(k) == CHOOSE m \in 0..k : m * m <= k /\ (m + 1) * (m + 1) > k

\* t = np.acos(s_pos): the angle m*arccos(s), nan outside [-1, 1]
Acos(s) ==
    [nan |-> RatLess(s, RatInt(-1)) \/ RatLess(RatInt(1), s), s |-> s, m |-> 1]

\* n_degree * t
Times(n, t) == [t EXCEPT !.m = n * @]

\* np.cos(m*t); at t = pi_f the result rounds to +1 or -1
Cos(t) == IF t.nan THEN FlNaN ELSE Exact(CosMultiple(t.m, t.s))

\* np.sin(arccos s): 0.0 at s = 1, sin(pi_f) at s = -1
SinAcos(s) ==
    IF s = RatInt(-1) THEN Eps(RatInt(1))
    ELSE LET q == RatSub(RatInt(1), RatMul(s, s))
             r == Rat(ISqrt(q.n), ISqrt(q.d))
         IN  IF RatMul(r, r) = q THEN Exact(r) ELSE Num(Zero, RatInt(1), q)

\* np.sin(m*t)
Sin(t) ==
    IF t.nan THEN FlNaN ELSE FlMul(Exact(SinRatio(t.m, t.s)), SinAcos(t.s))

FlInt(k) == Exact(RatInt(k))

\* line 37
chebyshev(n_degree, s_pos) == Cos(Times(n_degree, Acos(s_pos)))

\* lines 65-66
chebyshev_d(n_degree, s_pos) ==
    LET t == Acos(s_pos)
    IN  FlDiv(FlMul(FlInt(n_degree), Sin(Times(n_degree, t))), Sin(t))

chebyshev_d2_minus_s(n_degree, s_pos) ==
    LET t == Acos(s_pos)
    IN  FlDiv(FlSub(FlMul(FlNeg(FlInt(n_degree * n_degree)), Cos(Times(n_degree, t))),
                    FlMul(chebyshev_d(n_degree, s_pos), Cos(t))),
              FlMul(Sin(t), Sin(t)))

\* lines 94-99
chebyshev_d2(n_degree, s_pos) ==
    LET t == Acos(s_pos)
    IN  FlDiv(FlAdd(FlMul(FlNeg(FlInt(n_degree * n_degree)), Cos(Times(n_degree, t))),
                    FlMul(chebyshev_d(n_degree, s_pos), Cos(t))),
              FlMul(Sin(t), Sin(t)))

\* lines 127-132
chebyshev_d3(n_degree, s_pos) ==
    LET t == Acos(s_pos)
    IN  FlDiv(FlAdd(FlMul(FlInt(1 - n_degree * n_degree), chebyshev_d(n_degree, s_pos)),
                    FlMul(FlMul(FlInt(3), chebyshev_d2(n_degree, s_pos)), Cos(t))),
              FlMul(Sin(t), Sin(t)))

\* 1-(s_pos**2)
OneMinusSquare(s_pos) == FlSub(FlInt(1), FlMul(Exact(s_pos), Exact(s_pos)))

\* line 38
heinrichs(n_degree, s_pos) ==
    FlMul(OneMinusSquare(s_pos), chebyshev(n_degree, s_pos))

\* lines 66-69
heinrichs_d(n_degree, s_pos) ==
    FlSub(FlMul(OneMinusSquare(s_pos), chebyshev_d(n_degree, s_pos)),
          FlMul(FlMul(FlInt(2), Exact(s_pos)), chebyshev(n_degree, s_pos)))

heinrichs_d2_two_s(n_degree, s_pos) ==
    FlSub(FlSub(FlMul(OneMinusSquare(s_pos), chebyshev_d2(n_degree, s_pos)),
                FlMul(FlMul(FlInt(2), Exact(s_pos)), chebyshev_d(n_degree, s_pos))),
          FlMul(FlInt(2), chebyshev(n_degree, s_pos)))

\* lines 97-101
heinrichs_d2(n_degree, s_pos) ==
    FlSub(FlSub(FlMul(OneMinusSquare(s_pos), chebyshev_d2(n_degree, s_pos)),
                FlMul(FlMul(FlInt(4), Exact(s_pos)), chebyshev_d(n_degree, s_pos))),
          FlMul(FlInt(2), chebyshev(n_degree, s_pos)))

\* lines 129-133
heinrichs_d3(n_degree, s_pos) ==
    FlSub(FlSub(FlMul(OneMinusSquare(s_pos), chebyshev_d3(n_degree, s_pos)),
                FlMul(FlMul(FlInt(6), Exact(s_pos)), chebyshev_d2(n_degree, s_pos))),
          FlMul(FlInt(6), chebyshev_d(n_degree, s_pos)))

InitBasis ==
    /\ component = "basis"
    /\ SortOff
    /\ ScreenOff
    /\ FieldOff
    /\ DeformOff
    /\ LoggingOff
    /\ ToolsOff
    /\ cb_n \in 0..MaxDegree
    /\ cb_s \in BasisPoints
    /\ cb_pc = "ready"
    /\ cb_call = ""
    /\ cb_out = <<>>

BasisReturn(fn, result) ==
    /\ cb_pc \in {"ready", "returned"}
    /\ cb_pc' = "returned"
    /\ cb_call' = fn
    /\ cb_out' = result
    /\ UNCHANGED <<component, cb_n, cb_s>>
    /\ UNCHANGED <<sortVars, screenVars, fieldVars, deformVars, loggingVars, toolVars>>

CallChebyshev == BasisReturn("chebyshev", chebyshev(cb_n, cb_s))

CallChebyshevD == BasisReturn("chebyshev_d", chebyshev_d(cb_n, cb_s))

CallChebyshevD2 == BasisReturn("chebyshev_d2", chebyshev_d2(cb_n, cb_s))

CallChebyshevD3 == BasisReturn("chebyshev_d3", chebyshev_d3(cb_n, cb_s))

CallHeinrichs == BasisReturn("heinrichs", heinrichs(cb_n, cb_s))

CallHeinrichsD == BasisReturn("heinrichs_d", heinrichs_d(cb_n, cb_s))

CallHeinrichsD2 == BasisReturn("heinrichs_d2", heinrichs_d2(cb_n, cb_s))

CallHeinrichsD3 == BasisReturn("heinrichs_d3", heinrichs_d3(cb_n, cb_s))

NextBasis ==
    \/ CallChebyshev \/ CallChebyshevD \/ CallChebyshevD2 \/ CallChebyshevD3
    \/ CallHeinrichs \/ CallHeinrichsD \/ CallHeinrichsD2 \/ CallHeinrichsD3

SpecBasis == InitBasis /\ [][NextBasis]_vars

(***************************************************************************)
(* Concurrent invocations.  screening_eig and BackgroundField.__init__     *)
(* build a DefaultLogger, which works on the logging module's registry of  *)
(* named loggers; the registry and the console belong to the process, not  *)
(* to the invocation.  Threads run the statements of                       *)
(* DefaultLogger.__init__ and the writes of the handlers one at a time, in *)
(* any interleaving.                                                       *)
(***************************************************************************)
NumThreads == 2

Threads == 1..NumThreads

\* what a thread runs: screening_eig(matrix, check, phys) on its own arrays,
\* or BackgroundField('linear', value=lambda x: x).r_value(x) on its own x
Invocations ==
    { [op |-> "screening_eig", name |-> "screening_eig", bad |-> b] : b \in BOOLEAN }
        \cup { [op |-> "r_value", name |-> "linear", bad |-> b] : b \in BOOLEAN }

\* the logger utils_name.get_current_function_name builds for itself
NameLogger == "get_current_function_name"

\* the DefaultLoggers an invocation builds, in order: screening_eig calls
\* create_function_name_logger, which calls get_current_function_name
\* (it builds DefaultLogger(this_name)) and then builds
\* DefaultLogger(function_name); BackgroundField.__init__ builds
\* DefaultLogger(self.name)
LoggersOf(inv) ==
    IF inv.op = "screening_eig" THEN <<NameLogger, inv.name>> ELSE <<inv.name>>

LoggerNames == {inv.name : inv \in Invocations} \cup {NameLogger}

\* the invocation run alone, by the definitions of the sequential model
RunAlone(inv) ==
    IF inv.op = "screening_eig"
    THEN LET out == screening_eig(ScreenMatrix(IF inv.bad THEN 2 ELSE 3, 2),
                                  <<TRUE, FALSE>>, <<PhysArray(1, 2, "float64")>>)
         IN  [ended |-> out.pc, log |-> out.log]
    ELSE LET out == r_value(NewBackgroundField("linear", "x", "None", "None", "None"),
                            [type |-> IF inv.bad THEN "str" ELSE "float", v |-> 0])
         IN  [ended |-> out.kind, log |-> out.log]

\* logging.NOTSET < logging.INFO < logging.ERROR
LevelNo(level) ==
    CASE level = "NOTSET" -> 0
      [] level = "INFO" -> 1
      [] level = "ERROR" -> 2

NoLogger == [exists |-> FALSE, level |-> "NOTSET", propagate |-> TRUE, handlers |-> <<>>]

\* logging.Logger.__init__ as logging.getLogger runs it for a new name
NewLogger == [exists |-> TRUE, level |-> "NOTSET", propagate |-> TRUE, handlers |-> <<>>]

InitThreads ==
    /\ component = "threads"
    /\ SortOff
    /\ ScreenOff
    /\ FieldOff
    /\ DeformOff
    /\ BasisOff
    /\ ToolsOff
    /\ lg_pc = [t \in Threads |-> "getLogger"]
    /\ \E invs \in [Threads -> Invocations] :
           lg_local = [t \in Threads |->
                           [inv |-> invs[t], k |-> 1, empty |-> FALSE, i |-> 0]]
    /\ lg_loggers = [n \in LoggerNames |-> NoLogger]
    /\ lg_stream = <<>>

\* thread t of a run of concurrent invocations is at the statement pc
ThreadAt(t, pc) == component = "threads" /\ lg_pc[t] = pc

Step(t, from, to) ==
    /\ ThreadAt(t, from)
    /\ lg_pc' = [lg_pc EXCEPT ![t] = to]
    /\ UNCHANGED component
    /\ UNCHANGED <<sortVars, screenVars, fieldVars, deformVars, basisVars, toolVars>>

\* the name of the DefaultLogger the thread is building or has built last
NameOf(t) == LoggersOf(lg_local[t].inv)[lg_local[t].k]

\* DefaultLogger.__init__ returns: the next DefaultLogger of the invocation
\* is built, or its body starts
Built(t, from, empty) ==
    LET more == lg_local[t].k < Len(LoggersOf(lg_local[t].inv))
    IN  /\ Step(t, from, IF more THEN "getLogger" ELSE "body")
        /\ lg_local' = [lg_local EXCEPT ![t].empty = empty,
                                        ![t].k = IF more THEN @ + 1 ELSE @]

\* default_logger.py line 51: logging.getLogger(name)
GetLogger(t) ==
    /\ Step(t, "getLogger", "setLevel")
    /\ lg_loggers' = [lg_loggers EXCEPT ![NameOf(t)] = IF @.exists THEN @ ELSE NewLogger]
    /\ UNCHANGED <<lg_local, lg_stream>>

\* line 52: setLevel(level), level = logging.INFO
SetLevel(t) ==
    /\ Step(t, "setLevel", "propagate")
    /\ lg_loggers' = [lg_loggers EXCEPT ![NameOf(t)].level = "INFO"]
    /\ UNCHANGED <<lg_local, lg_stream>>

\* line 53: propagate = False
SetPropagate(t) ==
    /\ Step(t, "propagate", "handlers")
    /\ lg_loggers' = [lg_loggers EXCEPT ![NameOf(t)].propagate = FALSE]
    /\ UNCHANGED <<lg_local, lg_stream>>

\* line 55: if not self.__logger.handlers
TestHandlers(t) ==
    /\ ThreadAt(t, "handlers")
    /\ LET empty == lg_loggers[NameOf(t)].handlers = <<>>
       IN  IF empty
           THEN /\ Step(t, "handlers", "addHandler")
                /\ lg_local' = [lg_local EXCEPT ![t].empty = TRUE]
           ELSE Built(t, "handlers", FALSE)
    /\ UNCHANGED <<lg_loggers, lg_stream>>

\* lines 56-63: a new StreamHandler of level INFO, then addHandler(handler)
AddHandler(t) ==
    /\ Built(t, "addHandler", TRUE)
    /\ lg_loggers' = [lg_loggers EXCEPT ![NameOf(t)].handlers =
                          Append(@, [level |-> "INFO", by |-> t])]
    /\ UNCHANGED lg_stream

\* the record one handler writes for logger.error(msg), if it lets the
\* level through
Emit(handler, t, err) ==
    IF LevelNo(handler.level) <= LevelNo(err.level)
    THEN <<[thread |-> t, level |-> err.level, msg |-> err.msg]>>
    ELSE <<>>

\* the body of the invocation on the thread's own arguments; a failed
\* validation calls logger.error(msg), which hands the record to the
\* handlers of the logger if the logger lets the level through
Body(t) ==
    /\ ThreadAt(t, "body")
    /\ LET alone == RunAlone(lg_local[t].inv)
           logger == lg_loggers[NameOf(t)]
       IN  IF alone.log = <<>>
           THEN /\ Step(t, "body", "returned")
                /\ UNCHANGED lg_local
           ELSE IF LevelNo(logger.level) <= LevelNo(alone.log[1].level)
           THEN /\ Step(t, "body", "callHandlers")
                /\ lg_local' = [lg_local EXCEPT ![t].i = 1]
           ELSE /\ Step(t, "body", "exit")
                /\ UNCHANGED lg_local
    /\ UNCHANGED <<lg_loggers, lg_stream>>

\* logging.Logger.callHandlers: one turn of the loop over the handlers the
\* logger has now.  A handler writes its record under its own lock, which
\* is released before the next handler is asked.
CallHandlers(t) ==
    /\ ThreadAt(t, "callHandlers")
    /\ LET handlers == lg_loggers[NameOf(t)].handlers
           i == lg_local[t].i
       IN  IF i > Len(handlers)
           THEN /\ Step(t, "callHandlers", "exit")
                /\ UNCHANGED <<lg_local, lg_stream>>
           ELSE /\ Step(t, "callHandlers", "callHandlers")
                /\ lg_local' = [lg_local EXCEPT ![t].i = i + 1]
                /\ lg_stream' =
                       lg_stream \o Emit(handlers[i], t, RunAlone(lg_local[t].inv).log[1])
    /\ UNCHANGED lg_loggers

\* sys.exit(1)
ExitThread(t) ==
    /\ Step(t, "exit", "exited")
    /\ UNCHANGED <<lg_local, lg_loggers, lg_stream>>

NextThreads ==
    \E t \in Threads :
        \/ GetLogger(t) \/ SetLevel(t) \/ SetPropagate(t) \/ TestHandlers(t)
        \/ AddHandler(t) \/ Body(t) \/ CallHandlers(t) \/ ExitThread(t)

SpecThreads == InitThreads /\ [][NextThreads]_vars

(***************************************************************************)
(* decorator_yesno.py: exe_yes_continue                                    *)
(*                                                                         *)
(* A line typed at the prompt is a sequence of characters; input() returns *)
(* it without the newline.  One step of the model runs the wrapped         *)
(* function up to its next input() call or to its exit.                    *)
(***************************************************************************)
MaxLines == 3

\* A character is a string of one character, which may be any from U+0000
\* to U+00FF.  Of the characters above U+00FF the lines of the model hold
\* the whitespace only, each written as the string of its code point.
\* The letters with a lower case among them, A to Z and those of Latin-1:
UpperLetters ==
    <<"A", "B", "C", "D", "E", "F", "G", "H", "I", "J", "K", "L", "M",
      "N", "O", "P", "Q", "R", "S", "T", "U", "V", "W", "X", "Y", "Z",
      "À", "Á", "Â", "Ã", "Ä", "Å", "Æ", "Ç", "È", "É", "Ê", "Ë", "Ì",
      "Í", "Î", "Ï", "Ð", "Ñ", "Ò", "Ó", "Ô", "Õ", "Ö", "Ø", "Ù", "Ú",
      "Û", "Ü", "Ý", "Þ">>

LowerLetters ==
    <<"a", "b", "c", "d", "e", "f", "g", "h", "i", "j", "k", "l", "m",
      "n", "o", "p", "q", "r", "s", "t", "u", "v", "w", "x", "y", "z",
      "à", "á", "â", "ã", "ä", "å", "æ", "ç", "è", "é", "ê", "ë", "ì",
      "í", "î", "ï", "ð", "ñ", "ò", "ó", "ô", "õ", "ö", "ø", "ù", "ú",
      "û", "ü", "ý", "þ">>

\* the characters U+000B, U+001C, U+001D, U+001E, U+001F, U+0085 and
\* U+00A0, which are written between the quotes as they are
VerticalTab == ""

FileSeparator == ""

GroupSeparator == ""

RecordSeparator == ""

UnitSeparator == ""

NextLine == ""

NoBreakSpace == " "

\* the whitespace above U+00FF
UnicodeSpaces ==
    {"U+1680", "U+2000", "U+2001", "U+2002", "U+2003", "U+2004",
     "U+2005", "U+2006", "U+2007", "U+2008", "U+2009", "U+200A",
     "U+2028", "U+2029", "U+202F", "U+205F", "U+3000"}

\* the characters str.isspace() is true of, which str.strip() removes
Whitespace ==
    {" ", "\t", "\n", "\r", "\f", VerticalTab, FileSeparator, GroupSeparator,
     RecordSeparator, UnitSeparator, NextLine, NoBreakSpace} \cup UnicodeSpaces

\* the whitespace int() and float() allow around a numeral: not the four
\* separators U+001C to U+001F
NumeralWhitespace ==
    Whitespace \ {FileSeparator, GroupSeparator, RecordSeparator, UnitSeparator}

\* str.lower() on one character
LowerChar(c) ==
    IF \E i \in DOMAIN UpperLetters : UpperLetters[i] = c
    THEN LowerLetters[CHOOSE i \in DOMAIN UpperLetters : UpperLetters[i] = c]
    ELSE c

\* str.lower()
Lower(line) == [i \in 1..Len(line) |-> LowerChar(line[i])]

\* the least and the greatest of a nonempty set of integers
Least(S) == CHOOSE i \in S : \A j \in S : i <= j

Greatest(S) == CHOOSE i \in S : \A j \in S : j <= i

\* the places of a line that hold none of the characters of space
Inked(line, space) == {i \in 1..Len(line) : line[i] \notin space}

\* a line without the characters of space at its start, and at its end
LStrip(line, space) ==
    IF Inked(line, space) = {} THEN <<>>
    ELSE SubSeq(line, Least(Inked(line, space)), Len(line))

RStrip(line, space) ==
    IF Inked(line, space) = {} THEN <<>>
    ELSE SubSeq(line, 1, Greatest(Inked(line, space)))

StripLeadingOnly(line) == LStrip(line, Whitespace)

\* str.strip()
Strip(line) == RStrip(LStrip(line, Whitespace), Whitespace)

\* what int() and float() read of a string: the whitespace around the
\* numeral is skipped
NumeralOf(str) == RStrip(LStrip(str, NumeralWhitespace), NumeralWhitespace)

\* the lines typed at the yes/no prompt
YesNoLines ==
    { <<"y">>, <<"y", "e", "s">>, <<"Y", "E", "S">>, <<" ", "Y", "e", "s", "\t">>,
      <<"y", " ">>, <<"n">>, <<"N", "o">>, <<"\t", "n", "o", " ">>,
      <<>>, <<"y", "e">>, <<"y", " ", "e", "s">>, <<"n", "o", "n">>,
      <<VerticalTab, "y">>, <<"y", "e", "s", NoBreakSpace>>,
      <<"U+3000", "N", "O", UnitSeparator>> }

\* the wrapped function ran
CallEvent == [ev |-> "call", level |-> "", msg |-> "", code |-> 0]

InfoQuit == [level |-> "INFO", msg |-> "Quit"]

ErrInvalidInput == [level |-> "ERROR", msg |-> "Invalid input"]

\* lines 118-129: what one answer does to the inner loop.  "break" leaves
\* it for the next func(*args, **kwargs) of the outer loop.
exe_yes_continue_answer(line) ==
    LET yes_or_no == Lower(Strip(line))
    IN  IF yes_or_no \in {<<"y">>, <<"y", "e", "s">>}
        THEN [next |-> "break", trace |-> <<>>]
        ELSE IF yes_or_no \in {<<"n">>, <<"n", "o">>}
        THEN [next |-> "exit", trace |-> <<LogEvent(InfoQuit), ExitEvent(0)>>]
        ELSE [next |-> "input", trace |-> <<LogEvent(ErrInvalidInput)>>]

InitYesNo ==
    /\ component = "yesno"
    /\ CoreOff
    /\ InputOff
    /\ TimerOff
    /\ ProgressOff
    /\ Binary64Off
    /\ yn_pc = "idle"
    /\ yn_count = 0
    /\ yn_read = <<>>
    /\ yn_trace = <<>>

\* new_func(*args, **kwargs) is called: line 115, then the prompt of line 118
YesNoCall ==
    /\ yn_pc = "idle"
    /\ yn_pc' = "input"
    /\ yn_count' = yn_count + 1
    /\ yn_trace' = Append(yn_trace, CallEvent)
    /\ UNCHANGED <<component, yn_read>>
    /\ UNCHANGED <<coreVars, inputVars, timerVars, progressVars, binary64Vars>>

\* input() returns a line: lines 118-129, and line 115 again after a break
YesNoAnswer ==
    /\ yn_pc = "input"
    /\ Len(yn_read) < MaxLines
    /\ \E line \in YesNoLines :
        LET a == exe_yes_continue_answer(line)
        IN  /\ yn_read' = Append(yn_read, line)
            /\ IF a.next = "break"
               THEN /\ yn_count' = yn_count + 1
                    /\ yn_trace' = Append(yn_trace, CallEvent)
                    /\ yn_pc' = "input"
               ELSE /\ yn_count' = yn_count
                    /\ yn_trace' = yn_trace \o a.trace
                    /\ yn_pc' = IF a.next = "exit" THEN "exited" ELSE "input"
    /\ UNCHANGED component
    /\ UNCHANGED <<coreVars, inputVars, timerVars, progressVars, binary64Vars>>

NextYesNo == YesNoCall \/ YesNoAnswer

SpecYesNo == InitYesNo /\ [][NextYesNo]_vars

(***************************************************************************)
(* utils_input.py: input_value_within                                      *)
(*                                                                         *)
(* A number is a record [type, k, sgn, digits, e]: an int or a float.  With *)
(* k = "num" it is written in decimal, sgn * d1.d2d3... * 10^e, where      *)
(* digits = <<d1, d2, ...>> has no zero at either end and is empty for     *)
(* zero: an int is that number, a float is the float nearest to it (ties   *)
(* to even, inf beyond the largest float).  The other floats are nan, inf  *)
(* (k = "inf", the sign in sgn) and, for a numeral whose exponent the      *)
(* integers of the model do not hold, some float that is not nan           *)
(* (k = "any").  One step of the model runs the function from one input()  *)
(* to the next, to its return or to its exit.                              *)
(***************************************************************************)
Digits == <<"0", "1", "2", "3", "4", "5", "6", "7", "8", "9">>

IsDigit(c) == \E i \in 1..10 : Digits[i] = c

DigitValue(c) == (CHOOSE i \in 1..10 : Digits[i] = c) - 1

AllDigits(ds) == \A i \in 1..Len(ds) : IsDigit(ds[i])

\* the number a short string of decimal digits writes
RECURSIVE DigitsValue(_)
DigitsValue(ds) ==
    IF ds = <<>> THEN 0
    ELSE 10 * DigitsValue(SubSeq(ds, 1, Len(ds) - 1)) + DigitValue(ds[Len(ds)])

RECURSIVE Pow10(_)
Pow10(k) == IF k = 0 THEN 1 ELSE 10 * Pow10(k - 1)

\* the decimal digits of a natural number
RECURSIVE DigitsOf(_)
DigitsOf(k) ==
    IF k < 10 THEN <<Digits[k + 1]>>
    ELSE DigitsOf(k \div 10) \o <<Digits[(k % 10) + 1]>>

Number(type, sgn, digits, e) ==
    [type |-> type, k |-> "num", sgn |-> sgn, digits |-> digits, e |-> e]

\* 0.0 and -0.0
FloatZero(sgn) == Number("float", sgn, <<>>, 0)

FloatNaN == [type |-> "float", k |-> "nan", sgn |-> 0, digits |-> <<>>, e |-> 0]

FloatInf(sgn) == [type |-> "float", k |-> "inf", sgn |-> sgn, digits |-> <<>>, e |-> 0]

FloatAny == [type |-> "float", k |-> "any", sgn |-> 0, digits |-> <<>>, e |-> 0]

\* the number the numeral sgn * whole.frac * 10^exp writes
Decimal(type, sgn, whole, frac, exp) ==
    LET all == whole \o frac
        nz == {i \in 1..Len(all) : all[i] # "0"}
    IN  IF nz = {} THEN Number(type, IF type = "int" THEN 0 ELSE sgn, <<>>, 0)
        ELSE Number(type, sgn, SubSeq(all, Least(nz), Greatest(nz)),
                    exp + Len(whole) - Least(nz))

IntNum(k) == Decimal("int", IF k < 0 THEN -1 ELSE 1, DigitsOf(Abs(k)), <<>>, 0)

NoNum == IntNum(0)

\* -1, 0 or 1 as the number is negative, zero or positive
Sgn(z) == IF z.digits = <<>> THEN 0 ELSE z.sgn

DigitAt(ds, i) == IF i <= Len(ds) THEN DigitValue(ds[i]) ELSE 0

\* -1, 0 or 1 as 0.p is less than, equal to or greater than 0.q
DigitsCmp(p, q) ==
    LET n == IF Len(p) > Len(q) THEN Len(p) ELSE Len(q)
        diff == {i \in 1..n : DigitAt(p, i) # DigitAt(q, i)}
    IN  IF diff = {} THEN 0
        ELSE IF DigitAt(p, Least(diff)) < DigitAt(q, Least(diff)) THEN -1 ELSE 1

\* the same for the decimals two numbers are written as
DecCmp(a, b) ==
    IF Sgn(a) # Sgn(b) THEN (IF Sgn(a) < Sgn(b) THEN -1 ELSE 1)
    ELSE IF Sgn(a) = 0 THEN 0
    ELSE IF a.e # b.e THEN (IF a.e < b.e THEN -Sgn(a) ELSE Sgn(a))
    ELSE Sgn(a) * DigitsCmp(a.digits, b.digits)

\* the largest and the smallest power of ten a finite nonzero float reaches
MaxExp10 == 308

MinExp10 == -324

\* the decimal digits every float of the normal range keeps apart
ExactDigits == 15

\* the digits of an exponent the integers of the model hold
MaxExpDigits == 9

\* the digits int() reads (sys.int_info.default_max_str_digits)
MaxStrDigits == 4300

\* Decimals of MaxExp10 around 2^1024 - 2^970, the least decimal that
\* rounds to inf, and of MinExp10 around 2^-1075, the greatest that rounds
\* to zero.
OverflowBelow ==
    <<"1", "7", "9", "7", "6", "9", "3", "1", "3", "4", "8", "6", "2", "3", "1",
      "5", "8", "0", "7", "9", "3">>

OverflowAbove ==
    <<"1", "7", "9", "7", "6", "9", "3", "1", "3", "4", "8", "6", "2", "3", "1",
      "5", "8", "0", "7", "9", "4">>

VanishBelow ==
    <<"2", "4", "7", "0", "3", "2", "8", "2", "2", "9", "2", "0", "6", "2", "3",
      "2", "7", "2", "0", "8", "8">>

VanishAbove ==
    <<"2", "4", "7", "0", "3", "2", "8", "2", "2", "9", "2", "0", "6", "2", "3",
      "2", "7", "2", "0", "8", "9">>

\* the float nearest to a nonzero decimal may be, and is, inf
MightOverflow(z) ==
    z.e > MaxExp10 \/ (z.e = MaxExp10 /\ DigitsCmp(z.digits, OverflowBelow) > 0)

SurelyOverflows(z) ==
    z.e > MaxExp10 \/ (z.e = MaxExp10 /\ DigitsCmp(z.digits, OverflowAbove) >= 0)

\* the float nearest to a decimal may be, and is, zero
MightVanish(z) ==
    \/ z.digits = <<>>
    \/ z.e < MinExp10
    \/ z.e = MinExp10 /\ DigitsCmp(z.digits, VanishAbove) < 0

SurelyVanishes(z) ==
    \/ z.digits = <<>>
    \/ z.e < MinExp10
    \/ z.e = MinExp10 /\ DigitsCmp(z.digits, VanishBelow) <= 0

\* a float written as a decimal that surely rounds to inf or to zero is
\* that float
Rounded(z) ==
    IF z.k # "num" \/ z.type # "float" THEN z
    ELSE IF SurelyVanishes(z) THEN FloatZero(z.sgn)
    ELSE IF SurelyOverflows(z) THEN FloatInf(z.sgn)
    ELSE z

\* a number no other number of ExactDigits digits shares its float with
Short(z) ==
    \/ z.digits = <<>>
    \/ /\ Len(z.digits) <= ExactDigits
       /\ MinExp10 + ExactDigits + 2 <= z.e
       /\ z.e < MaxExp10

\* the digits kept when two numbers are compared by their leading digits,
\* in two halves, and the least power of ten they are cut at: the floats
\* are less than 10^MinPlace apart, or less than the last kept digit
KeptDigits == ExactDigits - 1

HalfKept == KeptDigits \div 2

MinPlace == MinExp10 + 1

\* the digit of a number at a power of ten
PlaceChar(z, p) ==
    LET i == z.e - p + 1
    IN  IF 1 <= i /\ i <= Len(z.digits) THEN z.digits[i] ELSE "0"

\* the HalfKept digits of a number from the power of ten p down
Part(z, p) == DigitsValue([i \in 1..HalfKept |-> PlaceChar(z, p + 1 - i)])

\* |a| and |b| cut below a power of ten differ by two or more of it: the
\* power is that of the last of KeptDigits digits of the larger number, or
\* MinPlace.  Floats of that size are less than one such power apart, and
\* the two numbers more.
Apart(a, b) ==
    LET top == IF a.e > b.e THEN a.e ELSE b.e
        low == IF top + 1 - KeptDigits > MinPlace THEN top + 1 - KeptDigits
               ELSE MinPlace
        high == low + KeptDigits - 1
        dh == Part(a, high) - Part(b, high)
        dl == Part(a, high - HalfKept) - Part(b, high - HalfKept)
    IN  Abs(dh) >= 2 \/ Abs(dh * Pow10(HalfKept) + dl) >= 2

\* two numbers written as different decimals are different floats: both
\* are short, or zero lies between them and one of them is not rounded to
\* it, or they are apart, or one is more than ten times the other, and
\* they are not both rounded to zero or to inf
SurelyDistinct(a, b) ==
    \/ Short(a) /\ Short(b)
    \/ Sgn(a) # Sgn(b) /\ ~(MightVanish(a) /\ MightVanish(b))
    \/ /\ Sgn(a) = Sgn(b)
       /\ Abs(a.e - b.e) >= 2 \/ Apart(a, b)
       /\ ~(MightVanish(a) /\ MightVanish(b))
       /\ ~(MightOverflow(a) /\ MightOverflow(b))

\* an int that a float need not equal
LongInt(z) == z.type = "int" /\ z.e >= ExactDigits

\* a <= b on finite numbers.  Ints compare as they are written, with each
\* other and, when they are long, with a float that is apart from them.
\* Rounding to the nearest float keeps the order, so a <= b as decimals is
\* a <= b as floats; a > b as decimals is a > b as floats when the two
\* floats surely differ, and otherwise the rounding decides: both
\* outcomes.
FiniteLeq(a, b) ==
    IF a.type = "int" /\ b.type = "int" THEN {DecCmp(a, b) <= 0}
    ELSE IF LongInt(a) \/ LongInt(b)
    THEN (IF Sgn(a) # Sgn(b) THEN {Sgn(a) < Sgn(b)}
          ELSE IF /\ Apart(a, b)
                  /\ ~(a.type = "float" /\ MightOverflow(a))
                  /\ ~(b.type = "float" /\ MightOverflow(b))
          THEN {DecCmp(a, b) <= 0}
          ELSE BOOLEAN)
    ELSE IF DecCmp(a, b) <= 0 THEN {TRUE}
    ELSE IF SurelyDistinct(a, b) THEN {FALSE}
    ELSE BOOLEAN

\* the outcomes of a <= b on ints and floats, one where the model decides
\* it; every comparison with nan is false
NumLeqRounded(a, b) ==
    IF a.k = "nan" \/ b.k = "nan" THEN {FALSE}
    ELSE IF a.k = "any" \/ b.k = "any" THEN BOOLEAN
    ELSE IF a.k = "inf" /\ a.sgn < 0 THEN {TRUE}
    ELSE IF b.k = "inf" /\ b.sgn > 0 THEN {TRUE}
    ELSE IF a.k = "inf"
    THEN (IF b.k = "num" /\ b.type = "float" /\ Sgn(b) > 0 /\ MightOverflow(b)
          THEN BOOLEAN ELSE {FALSE})
    ELSE IF b.k = "inf"
    THEN (IF a.type = "float" /\ Sgn(a) < 0 /\ MightOverflow(a)
          THEN BOOLEAN ELSE {FALSE})
    ELSE FiniteLeq(a, b)

NumLeq(a, b) == NumLeqRounded(Rounded(a), Rounded(b))

HasSign(str) == str # <<>> /\ Head(str) \in {"+", "-"}

Unsigned(str) == IF HasSign(str) THEN Tail(str) ELSE str

SignOf(str) == IF HasSign(str) /\ Head(str) = "-" THEN -1 ELSE 1

Casted(num) == [raised |-> "", num |-> num]

ValueError == [raised |-> "ValueError", num |-> NoNum]

\* decimal digits, with single underscores allowed between two digits
UnderscoredDigits(s) ==
    /\ s # <<>>
    /\ \A i \in 1..Len(s) :
           \/ IsDigit(s[i])
           \/ /\ s[i] = "_"
              /\ 1 < i /\ i < Len(s)
              /\ IsDigit(s[i - 1]) /\ IsDigit(s[i + 1])

NotUnderscore(c) == c # "_"

DropUnderscores(s) == SelectSeq(s, NotUnderscore)

DropLeadingZeros(ds) ==
    LET nz == {i \in 1..Len(ds) : ds[i] # "0"}
    IN  IF nz = {} THEN <<>> ELSE SubSeq(ds, Least(nz), Len(ds))

\* int(str): whitespace around, an optional sign and decimal digits, at
\* most MaxStrDigits of them
CastInt(str) ==
    LET body == Unsigned(NumeralOf(str))
    IN  IF UnderscoredDigits(body) /\ Len(DropUnderscores(body)) <= MaxStrDigits
        THEN Casted(Decimal("int", SignOf(NumeralOf(str)), DropUnderscores(body), <<>>, 0))
        ELSE ValueError

\* the float a decimal numeral writes: sgn * whole.frac * 10^(esgn * edigits).
\* An exponent of more than MaxExpDigits digits makes it inf or zero unless
\* the numeral has about as many digits as the exponent says.
DecimalFloat(sgn, whole, frac, esgn, edigits) ==
    LET edig == DropLeadingZeros(edigits)
    IN  IF DropLeadingZeros(whole \o frac) = <<>> THEN FloatZero(sgn)
        ELSE IF Len(edig) > MaxExpDigits
        THEN (IF esgn > 0 /\ Len(frac) < Pow10(MaxExpDigits) - MaxExp10
              THEN FloatInf(sgn)
              ELSE IF esgn < 0 /\ Len(whole) < Pow10(MaxExpDigits) + MinExp10
              THEN FloatZero(sgn)
              ELSE FloatAny)
        ELSE Rounded(Decimal("float", sgn, whole, frac, esgn * DigitsValue(edig)))

\* float(str): whitespace around, an optional sign, then nan, inf, infinity
\* in any case, or decimal digits with at most one point and a digit on one
\* side of it, and an optional exponent: e or E, an optional sign, digits
CastFloat(str) ==
    LET body == Lower(Unsigned(NumeralOf(str)))
        sgn == SignOf(NumeralOf(str))
        es == {i \in 1..Len(body) : body[i] = "e"}
        e == IF es = {} THEN Len(body) + 1 ELSE Least(es)
        mantissa == SubSeq(body, 1, e - 1)
        exponent == SubSeq(body, e + 1, Len(body))
        dots == {i \in 1..Len(mantissa) : mantissa[i] = "."}
        dot == IF dots = {} THEN Len(mantissa) + 1 ELSE CHOOSE i \in dots : TRUE
        whole == SubSeq(mantissa, 1, dot - 1)
        frac == SubSeq(mantissa, dot + 1, Len(mantissa))
    IN  IF body = <<"n", "a", "n">> THEN Casted(FloatNaN)
        ELSE IF body \in {<<"i", "n", "f">>, <<"i", "n", "f", "i", "n", "i", "t", "y">>}
        THEN Casted(FloatInf(sgn))
        ELSE IF /\ Cardinality(dots) <= 1
                /\ whole = <<>> \/ UnderscoredDigits(whole)
                /\ frac = <<>> \/ UnderscoredDigits(frac)
                /\ Len(whole) + Len(frac) > 0
                /\ es = {} \/ UnderscoredDigits(Unsigned(exponent))
        THEN Casted(DecimalFloat(sgn, DropUnderscores(whole), DropUnderscores(frac),
                                 SignOf(exponent),
                                 DropUnderscores(Unsigned(exponent))))
        ELSE ValueError

CastWithoutSign(cast, str) ==
    IF cast = "int" THEN CastInt(Unsigned(str)) ELSE CastFloat(Unsigned(str))

\* cast(input_str)
Cast(cast, str) == IF cast = "int" THEN CastInt(str) ELSE CastFloat(str)

\* the lines typed at the prompt of input_value_within
ValueLines ==
    { <<"5">>, <<"-", "3">>, <<" ", "1", "2", " ">>, <<"1", ".", "5">>, <<".", "5">>,
      <<"+", "2">>, <<"q">>, <<"\t", "Q", " ">>, <<"a">>, <<>>, <<"n", "a", "n">>,
      <<"0", "0", "7">>, <<"1", "e", "0">>, <<"2", "E", "-", "1">>,
      <<VerticalTab, "5">>, <<"q", VerticalTab>>, <<FileSeparator, "2", NoBreakSpace>>,
      <<"U+2003", "1", ".", "5", NextLine>>, <<"2", UnitSeparator, "2">> }

\* the arguments min_value and max_value, of the type cast returns
ValueBounds(cast) ==
    IF cast = "int" THEN {IntNum(0), IntNum(6)}
    ELSE {FloatZero(1), Number("float", 1, <<"1", "5">>, 0)}

ErrOutOfRange == [level |-> "ERROR", msg |-> "Out of range"]

\* lines 109-123: the outcomes of one pass of the loop on the line input()
\* returned, one where the model decides the comparisons of line 119
input_value_within_pass(min_value, max_value, cast, line) ==
    LET input_str == Strip(line)
        chosen == Cast(cast, input_str)
    IN  IF Lower(input_str) = <<"q">>
        THEN {[next |-> "exit", ret |-> NoNum,
               trace |-> <<LogEvent(InfoQuit), ExitEvent(0)>>]}
        ELSE IF chosen.raised = "ValueError"
        THEN {[next |-> "input", ret |-> NoNum,
               trace |-> <<LogEvent(ErrInvalidInput)>>]}
        ELSE {IF above /\ below
              THEN [next |-> "return", ret |-> chosen.num, trace |-> <<ReturnEvent>>]
              ELSE [next |-> "input", ret |-> NoNum,
                    trace |-> <<LogEvent(ErrOutOfRange)>>] :
                  above \in NumLeq(min_value, chosen.num),
                  below \in NumLeq(chosen.num, max_value)}

\* input_value_within(min_value, max_value, cast) is called and prompts
InitInput ==
    /\ component = "input"
    /\ CoreOff
    /\ YesNoOff
    /\ TimerOff
    /\ ProgressOff
    /\ Binary64Off
    /\ iv_pc = "input"
    /\ \E cast \in {"int", "float"} :
       \E min_value \in ValueBounds(cast), max_value \in ValueBounds(cast) :
           iv_args = [min_value |-> min_value, max_value |-> max_value, cast |-> cast]
    /\ iv_read = <<>>
    /\ iv_trace = <<>>
    /\ iv_ret = NoNum

\* input() returns a line
InputAnswer ==
    /\ iv_pc = "input"
    /\ Len(iv_read) < MaxLines
    /\ \E line \in ValueLines :
        \E p \in input_value_within_pass(iv_args.min_value, iv_args.max_value,
                                         iv_args.cast, line) :
            /\ iv_read' = Append(iv_read, line)
            /\ iv_trace' = iv_trace \o p.trace
            /\ iv_ret' = p.ret
            /\ iv_pc' = CASE p.next = "exit" -> "exited"
                          [] p.next = "return" -> "returned"
                          [] OTHER -> "input"
    /\ UNCHANGED <<component, iv_args>>
    /\ UNCHANGED <<coreVars, yesnoVars, timerVars, progressVars, binary64Vars>>

NextInput == InputAnswer

SpecInput == InitInput /\ [][NextInput]_vars

(***************************************************************************)
(* default_timer.py: DefaultTimer                                          *)
(*                                                                         *)
(* perf_counter() is a clock that never runs backwards: the variable       *)
(* tm_now, in ticks.  An attribute that may be None is a record [none, t]. *)
(***************************************************************************)
MaxCalls == 4

\* the last reading of the clock in a run
MaxTime == 3

None == [none |-> TRUE, t |-> 0]

Some(t) == [none |-> FALSE, t |-> t]

TimerLog(level, msg, value) == [level |-> level, msg |-> msg, value |-> value]

\* lines 44-46
DefaultTimer == [start_time |-> None, elapsed_time |-> None, split_time |-> None]

\* the result of a method: the instance after it, what it returned, what
\* it logged
Done(self, ret, log) == [self |-> self, ret |-> ret, log |-> log]

start_keeping_split(self, now) ==
    Done([self EXCEPT !.elapsed_time = None, !.start_time = Some(now)],
         None, <<TimerLog("INFO", "Start", None)>>)

\* lines 60-64
start(self, now) ==
    Done([self EXCEPT !.elapsed_time = None, !.split_time = None,
                      !.start_time = Some(now)],
         None, <<TimerLog("INFO", "Start", None)>>)

\* lines 76-81
show(self, now) ==
    IF self.start_time.none
    THEN Done(self, None, <<TimerLog("WARNING", "Timer has not been started.", None)>>)
    ELSE LET elapsed == now - self.start_time.t
         IN  Done([self EXCEPT !.elapsed_time = Some(elapsed)], None,
                  <<TimerLog("INFO", "Elapsed time: {:.1f} sec.", Some(elapsed))>>)

\* lines 86-87
end(self, now) ==
    LET shown == show(self, now)
    IN  Done(shown.self, None, shown.log \o <<TimerLog("INFO", "End", None)>>)

\* lines 98-104
lap(self, now) ==
    IF self.split_time.none
    THEN Done([self EXCEPT !.split_time = Some(now)], None, <<>>)
    ELSE Done([self EXCEPT !.split_time = Some(now)],
              Some(now - self.split_time.t), <<>>)

\* timer = DefaultTimer(name)
InitTimer ==
    /\ component = "timer"
    /\ CoreOff
    /\ YesNoOff
    /\ InputOff
    /\ ProgressOff
    /\ Binary64Off
    /\ tm_pc = "alive"
    /\ tm_now = 0
    /\ tm_timer = DefaultTimer
    /\ tm_calls = <<>>
    /\ tm_log = <<>>

\* time passes between two calls
TimerTick ==
    /\ tm_pc = "alive"
    /\ tm_now < MaxTime
    /\ tm_now' = tm_now + 1
    /\ UNCHANGED <<component, tm_pc, tm_timer, tm_calls, tm_log>>
    /\ UNCHANGED <<coreVars, yesnoVars, inputVars, progressVars, binary64Vars>>

TimerCall(op, done) ==
    /\ tm_pc = "alive"
    /\ Len(tm_calls) < MaxCalls
    /\ tm_timer' = done.self
    /\ tm_calls' = Append(tm_calls, [op |-> op, now |-> tm_now, ret |-> done.ret,
                                     split |-> done.self.split_time])
    /\ tm_log' = tm_log \o done.log
    /\ UNCHANGED <<component, tm_pc, tm_now>>
    /\ UNCHANGED <<coreVars, yesnoVars, inputVars, progressVars, binary64Vars>>

TimerStart == TimerCall("start", start(tm_timer, tm_now))

TimerShow == TimerCall("show", show(tm_timer, tm_now))

TimerEnd == TimerCall("end", end(tm_timer, tm_now))

TimerLap == TimerCall("lap", lap(tm_timer, tm_now))

NextTimer == TimerTick \/ TimerStart \/ TimerShow \/ TimerEnd \/ TimerLap

SpecTimer == InitTimer /\ [][NextTimer]_vars

(***************************************************************************)
(* progress_bar.py: ProgressBar                                            *)
(*                                                                         *)
(* What a call does is a sequence of events in program order: records of   *)
(* the logger, lines printed (the bar as its number of filled cells, the   *)
(* counter done/total, the times shown), and sys.exit.  The name in front  *)
(* of the bar is left out.  The clock advances by one tick per call.       *)
(***************************************************************************)
MaxBarCalls == 4

\* the largest num_calc and the largest num_process of the model
MaxCalc == 3

MaxProcess == 2

\* ProgressBar.__bar_width
bar_width == 10

BarEvent(ev, level, msg, code, filled, done, total, remaining, lap_shown) ==
    [ev |-> ev, level |-> level, msg |-> msg, code |-> code, filled |-> filled,
     done |-> done, total |-> total, remaining |-> remaining, lap |-> lap_shown]

BarLog(level, msg) == BarEvent("log", level, msg, 0, 0, 0, 0, Zero, Zero)

BarExit(code) == BarEvent("exit", "", "", code, 0, 0, 0, Zero, Zero)

\* print(f'{print_name} [{p_bar}] {text}'): msg tells the three texts apart
BarPrint(msg, filled, done, total, remaining, lap_shown) ==
    BarEvent("print", "", msg, 0, filled, done, total, remaining, lap_shown)

BarDone(self, events, next) == [self |-> self, events |-> events, next |-> next]

\* lines 47-61
ProgressBar(num_calc) ==
    LET self == [num_calc |-> num_calc, timer |-> DefaultTimer]
    IN  IF num_calc <= 0
        THEN BarDone(self, <<BarLog("WARNING", "Invalid argument"), BarExit(1)>>, "exited")
        ELSE BarDone(self, <<>>, "alive")

\* lines 66-72
ProgressBar_start(self, now) ==
    BarDone([self EXCEPT !.timer = lap(self.timer, now).self],
            <<BarLog("INFO", "Start"),
              BarPrint("", 0, 0, self.num_calc, Zero, Zero)>>,
            "alive")

len_filled_remaining(i_calc, num_calc) ==
    ((num_calc - i_calc - 1) * bar_width) \div num_calc

\* lines 111-112: int() of a float in [0, 10]; the float product rounds to
\* the same integer part as the exact one for num_calc up to 2000
len_filled(i_calc, num_calc) == ((i_calc + 1) * bar_width) \div num_calc

\* lines 108-129
ProgressBar_report(self, i_calc, num_process, lap_time) ==
    LET remaining_hours ==
            RatDiv(RatDiv(RatInt((self.num_calc - i_calc - 1) * lap_time), RatInt(3600)),
                   RatInt(num_process))
        filled == len_filled(i_calc, self.num_calc)
        lap_shown == Rat(lap_time, num_process)
    IN  IF i_calc + 1 < self.num_calc
        THEN <<BarPrint("Finish later", filled, i_calc + 1, self.num_calc,
                        remaining_hours, lap_shown)>>
        ELSE IF i_calc + 1 = self.num_calc
        THEN <<BarPrint("Finished", filled, i_calc + 1, self.num_calc, Zero, Zero),
               BarLog("INFO", "End")>>
        ELSE <<>>

\* lines 94-129
ProgressBar_update(self, i_calc, num_process, now) ==
    IF self.num_calc <= 0 \/ i_calc < 0 \/ i_calc + 1 > self.num_calc
    THEN BarDone(self, <<BarLog("ERROR", "Invalid argument"), BarExit(1)>>, "exited")
    ELSE IF (i_calc + 1) % num_process = 0 \/ i_calc + 1 = self.num_calc
    THEN LET lapped == lap(self.timer, now)
             timed == [self EXCEPT !.timer = lapped.self]
         IN  IF lapped.ret.none
             THEN LET started == ProgressBar_start(timed, now)
                  IN  BarDone(started.self,
                              <<BarLog("WARNING", "Progress bar has not been started.")>>
                                  \o started.events,
                              "alive")
             ELSE BarDone(timed,
                          ProgressBar_report(timed, i_calc, num_process, lapped.ret.t),
                          "alive")
    ELSE BarDone(self, <<>>, "alive")

BarCall(op, i_calc, num_process, events) ==
    [op |-> op, i |-> i_calc, p |-> num_process, events |-> events]

\* progress_bar = ProgressBar(name, num_calc)
InitProgress ==
    /\ component = "progress"
    /\ CoreOff
    /\ YesNoOff
    /\ InputOff
    /\ TimerOff
    /\ Binary64Off
    /\ pb_now = 0
    /\ \E num_calc \in 0..MaxCalc :
        LET made == ProgressBar(num_calc)
        IN  /\ pb_bar = made.self
            /\ pb_pc = made.next
            /\ pb_calls = <<BarCall("init", 0, 0, made.events)>>

BarStep(op, i_calc, num_process, done) ==
    /\ pb_bar' = done.self
    /\ pb_pc' = done.next
    /\ pb_calls' = Append(pb_calls, BarCall(op, i_calc, num_process, done.events))
    /\ pb_now' = pb_now + 1
    /\ UNCHANGED component
    /\ UNCHANGED <<coreVars, yesnoVars, inputVars, timerVars, binary64Vars>>

\* progress_bar.start()
ProgressStart ==
    /\ pb_pc = "alive"
    /\ Len(pb_calls) <= MaxBarCalls
    /\ BarStep("start", 0, 0, ProgressBar_start(pb_bar, pb_now + 1))

\* progress_bar.update(i_calc, num_process)
ProgressUpdate ==
    /\ pb_pc = "alive"
    /\ Len(pb_calls) <= MaxBarCalls
    /\ \E i_calc \in (-1)..MaxCalc, num_process \in 1..MaxProcess :
           BarStep("update", i_calc, num_process,
                   ProgressBar_update(pb_bar, i_calc, num_process, pb_now + 1))

NextProgress == ProgressStart \/ ProgressUpdate

SpecProgress == InitProgress /\ [][NextProgress]_vars

(***************************************************************************)
(* init_complex_coordinate.y_complex in binary64 arithmetic                *)
(***************************************************************************)
\* A binary64 number is a record [k, sgn, bits].  With k = "fin" it is
\* sgn * the sum of 2^i over i in bits, a set of at most Precision integers
\* from MinBit to MaxExponent, empty for 0.0 and -0.0; the others are inf
\* with its sign and nan.  The magnitudes are added, subtracted and
\* multiplied exactly, and the result rounded to nearest, ties to even, as
\* the processor does.
Precision == 53

\* the powers of two of the largest and of the smallest binary64 number
MaxExponent == 1023

MinBit == -1074

B64Fin(sgn, bits) == [k |-> "fin", sgn |-> sgn, bits |-> bits]

B64Inf(sgn) == [k |-> "inf", sgn |-> sgn, bits |-> {}]

B64NaN == [k |-> "nan", sgn |-> 1, bits |-> {}]

RECURSIVE Pow2(_)
Pow2(k) == IF k = 0 THEN 1 ELSE 2 * Pow2(k - 1)

\* the binary digits of a natural number below 2^31
BitsOf(n) == {i \in 0..30 : (n \div Pow2(i)) % 2 = 1}

\* the binary64 number m * 2^e for a short integer m
B64(m, e) == B64Fin(IF m < 0 THEN -1 ELSE 1, {i + e : i \in BitsOf(Abs(m))})

\* the highest place of a magnitude
Top(S) == -Least({-i : i \in S})

\* the digits of A and of B at place i, and what is carried into it, added
DigitsAt(A, B, i, carry) ==
    (IF i \in A THEN 1 ELSE 0) + (IF i \in B THEN 1 ELSE 0) + carry

\* what A + B carries out of the places low..high when carry is carried
\* into place low
RECURSIVE CarryOut(_, _, _, _, _)
CarryOut(A, B, low, high, carry) ==
    IF low = high THEN DigitsAt(A, B, low, carry) \div 2
    ELSE LET mid == (low + high) \div 2
         IN  IF CarryOut(A, B, low, mid, carry) = 0
             THEN CarryOut(A, B, mid + 1, high, 0)
             ELSE CarryOut(A, B, mid + 1, high, 1)

\* the digits of A + B at the places low..high when carry is carried into
\* place low
RECURSIVE Sum(_, _, _, _, _)
Sum(A, B, low, high, carry) ==
    IF low = high
    THEN (IF DigitsAt(A, B, low, carry) % 2 = 1 THEN {low} ELSE {})
    ELSE LET mid == (low + high) \div 2
         IN  Sum(A, B, low, mid, carry)
                 \cup IF CarryOut(A, B, low, mid, carry) = 0
                      THEN Sum(A, B, mid + 1, high, 0)
                      ELSE Sum(A, B, mid + 1, high, 1)

\* A + B on magnitudes: nothing is carried below the lowest place where
\* both have a digit
MagAdd(A, B) ==
    IF A \cap B = {} THEN A \cup B
    ELSE LET low == Least(A \cap B)
         IN  {i \in A \cup B : i < low} \cup Sum(A, B, low, Top(A \cup B) + 1, 0)

\* 2^n - B on magnitudes with B < 2^n: the digits of B above its lowest
\* one are inverted
Complement(B, n) == {Least(B)} \cup {i \in (Least(B) + 1)..(n - 1) : i \notin B}

\* A - B on magnitudes with A > B: A + (2^n - B) - 2^n for 2^n above A
MagSub(A, B) ==
    IF B = {} THEN A
    ELSE MagAdd(A, Complement(B, Top(A) + 1)) \ {Top(A) + 1}

\* A < B on magnitudes
MagLess(A, B) == A # B /\ Top((A \ B) \cup (B \ A)) \in B

\* A * B on magnitudes: A shifted by each digit of B, added up, the lower
\* half of the places of B and the upper half apart
RECURSIVE MagMulBy(_, _)
MagMulBy(A, B) ==
    IF B = {} THEN {}
    ELSE IF Least(B) = Top(B) THEN {i + Least(B) : i \in A}
    ELSE LET mid == (Least(B) + Top(B)) \div 2
         IN  MagAdd(MagMulBy(A, {b \in B : b <= mid}),
                    MagMulBy(A, {b \in B : b > mid}))

MagMul(A, B) ==
    IF Cardinality(A) >= Cardinality(B) THEN MagMulBy(A, B) ELSE MagMulBy(B, A)

\* the place of the last digit binary64 keeps of a nonzero magnitude
LastPlace(S) ==
    IF Top(S) - Precision + 1 > MinBit THEN Top(S) - Precision + 1 ELSE MinBit

\* a magnitude of binary64 digits with its sign, inf when it is too large
B64Of(sgn, S) ==
    IF S # {} /\ Top(S) > MaxExponent THEN B64Inf(sgn) ELSE B64Fin(sgn, S)

\* a magnitude cut after the place last, and the next one above
RoundedDown(S, last) == {i \in S : i >= last}

RoundedUp(S, last) == MagAdd(RoundedDown(S, last), {last})

\* an exact magnitude rounded to nearest, ties to even
B64Round(sgn, S) ==
    IF S = {} THEN B64Fin(sgn, {})
    ELSE LET last == LastPlace(S)
         IN  IF /\ (last - 1) \in S
                /\ last \in S \/ \E i \in S : i < last - 1
             THEN B64Of(sgn, RoundedUp(S, last))
             ELSE B64Of(sgn, RoundedDown(S, last))

\* x + y
B64Add(x, y) ==
    IF x.k = "nan" \/ y.k = "nan" THEN B64NaN
    ELSE IF x.k = "inf"
    THEN (IF y.k = "inf" /\ y.sgn # x.sgn THEN B64NaN ELSE x)
    ELSE IF y.k = "inf" THEN y
    ELSE IF x.sgn = y.sgn THEN B64Round(x.sgn, MagAdd(x.bits, y.bits))
    ELSE IF x.bits = y.bits THEN B64Fin(1, {})
    ELSE IF MagLess(x.bits, y.bits) THEN B64Round(y.sgn, MagSub(y.bits, x.bits))
    ELSE B64Round(x.sgn, MagSub(x.bits, y.bits))

B64Neg(x) == IF x.k = "nan" THEN x ELSE [x EXCEPT !.sgn = -x.sgn]

B64Sub(x, y) == B64Add(x, B64Neg(y))

\* x * y
B64Mul(x, y) ==
    IF x.k = "nan" \/ y.k = "nan" THEN B64NaN
    ELSE IF x.k = "inf" \/ y.k = "inf"
    THEN (IF (x.k = "fin" /\ x.bits = {}) \/ (y.k = "fin" /\ y.bits = {})
          THEN B64NaN ELSE B64Inf(x.sgn * y.sgn))
    ELSE B64Round(x.sgn * y.sgn, MagMul(x.bits, y.bits))

\* x / 2.0
B64Half(x) ==
    IF x.k # "fin" THEN x ELSE B64Round(x.sgn, {i - 1 : i \in x.bits})

\* what an operation gives: a number, or the exception it raises
Returned(num) == [raised |-> "", num |-> num]

Raised(exception) == [raised |-> exception, num |-> B64NaN]

\* x ** 2 on a float (float_pow): nan, inf, zero and one are answered at
\* once; otherwise the C library's pow() gives the square, rounded down or
\* up where it is not a binary64 number, and an infinite result raises
\* OverflowError
B64Square(x) ==
    IF x.k = "nan" THEN {Returned(x)}
    ELSE IF x.k = "inf" THEN {Returned(B64Inf(1))}
    ELSE IF x.bits = {} THEN {Returned(B64Fin(1, {}))}
    ELSE LET S == MagMul(x.bits, x.bits)
             last == LastPlace(S)
             near == IF \A i \in S : i >= last THEN {S}
                     ELSE {RoundedDown(S, last), RoundedUp(S, last)}
         IN  {IF B64Of(1, r).k = "inf" THEN Raised("OverflowError")
              ELSE Returned(B64Of(1, r)) : r \in near}

\* Python's arithmetic on two complex operands (_Py_c_sum, _Py_c_diff,
\* _Py_c_prod); a float operand of a complex one is converted with a
\* zero imaginary part first
IsComplex(z) == "re" \in DOMAIN z

ToComplex(z) == IF IsComplex(z) THEN z ELSE Complex(z, B64Fin(1, {}))

ComplexAdd(z, w) == Complex(B64Add(z.re, w.re), B64Add(z.im, w.im))

ComplexSub(z, w) == Complex(B64Sub(z.re, w.re), B64Sub(z.im, w.im))

ComplexMul(z, w) ==
    Complex(B64Sub(B64Mul(z.re, w.re), B64Mul(z.im, w.im)),
            B64Add(B64Mul(z.re, w.im), B64Mul(z.im, w.re)))

\* z / 2 (_Py_c_quot by 2+0j): ratio = 0.0 / 2.0 and denom = 2.0
ComplexHalf(z) ==
    Complex(B64Half(B64Add(z.re, B64Mul(z.im, B64Fin(1, {})))),
            B64Half(B64Sub(z.im, B64Mul(z.re, B64Fin(1, {})))))

\* z ** 2 on a complex (complex_pow, c_powu): (1+0j) * (z * z), and an
\* infinite part raises OverflowError
ComplexSquare(z) ==
    LET p == ComplexMul(Complex(B64(1, 0), B64Fin(1, {})), ComplexMul(z, z))
    IN  IF p.re.k = "inf" \/ p.im.k = "inf" THEN {Raised("OverflowError")}
        ELSE {Returned(p)}

\* + - * /2 and **2 on floats and complex numbers
PyAdd(x, y) ==
    IF IsComplex(x) \/ IsComplex(y) THEN ComplexAdd(ToComplex(x), ToComplex(y))
    ELSE B64Add(x, y)

PySub(x, y) ==
    IF IsComplex(x) \/ IsComplex(y) THEN ComplexSub(ToComplex(x), ToComplex(y))
    ELSE B64Sub(x, y)

PyMul(x, y) ==
    IF IsComplex(x) \/ IsComplex(y) THEN ComplexMul(ToComplex(x), ToComplex(y))
    ELSE B64Mul(x, y)

PyHalf(x) == IF IsComplex(x) THEN ComplexHalf(x) ELSE B64Half(x)

PySquare(x) == IF IsComplex(x) THEN ComplexSquare(x) ELSE B64Square(x)

\* x == y on binary64 numbers, and on floats and complex numbers
B64Eq(x, y) ==
    /\ x.k # "nan" /\ y.k # "nan"
    /\ x.k = y.k /\ x.bits = y.bits
    /\ x.sgn = y.sgn \/ (x.k = "fin" /\ x.bits = {})

PyEq(x, y) ==
    /\ B64Eq(ToComplex(x).re, ToComplex(y).re)
    /\ B64Eq(ToComplex(x).im, ToComplex(y).im)

\* the values given to y_start and to y_end: 0, 1, -1, 1/2, 3/2, 2^-30,
\* 2^-60, 2^60
B64Ends ==
    {B64(0, 0), B64(1, 0), B64(-1, 0), B64(1, -1), B64(3, -1),
     B64(1, -30), B64(1, -60), B64(1, 60)}

\* the values given to alpha, beta_0 and beta_1: 0, -1/2
B64Params == {B64(0, 0), B64(-1, -1)}

\* the values given to s_pos: the two ends of the interval, as floats and
\* as complex numbers, and 0, 2^-30 and 2^600
B64Points ==
    {B64(-1, 0), B64(1, 0), ToComplex(B64(-1, 0)), ToComplex(B64(1, 0)),
     B64(0, 0), B64(1, -30), B64(1, 600)}

\* lines 116-120, each operation rounded as binary64 rounds it: the
\* outcomes of y_complex(s_pos)
y_complex_binary64(c, s_pos) ==
    LET one == B64(1, 0)
        straight == PyAdd(c.y_start,
                          PyHalf(PyMul(B64Sub(c.y_end, c.y_start),
                                       PyAdd(s_pos, one))))
        deform == PyMul(PyAdd(c.alpha, Complex(B64Fin(1, {}), one)),
                        PyAdd(c.beta_0, PyMul(c.beta_1, s_pos)))
    IN  {IF square.raised # "" THEN square
         ELSE Returned(PySub(straight, PyMul(deform, PySub(square.num, one)))) :
             square \in PySquare(s_pos)}

\* init_complex_coordinate(y_start, y_end, alpha=, beta_0=, beta_1=)
InitBinary64 ==
    /\ component = "binary64"
    /\ CoreOff
    /\ YesNoOff
    /\ InputOff
    /\ TimerOff
    /\ ProgressOff
    /\ \E y_start \in B64Ends, y_end \in B64Ends,
          alpha \in B64Params, beta_0 \in B64Params, beta_1 \in B64Params :
           b64_coord = [y_start |-> y_start, y_end |-> y_end,
                       alpha |-> alpha, beta_0 |-> beta_0, beta_1 |-> beta_1]
    /\ b64_pc = "built"
    /\ b64_call = <<>>

\* complex_coordinate.value(s_pos): one of the outcomes of y_complex(s_pos)
Binary64Value ==
    /\ b64_pc = "built"
    /\ \E s_pos \in B64Points :
       \E ret \in y_complex_binary64(b64_coord, s_pos) :
           b64_call' = [s |-> s_pos, ret |-> ret]
    /\ UNCHANGED <<component, b64_pc, b64_coord>>
    /\ UNCHANGED <<coreVars, yesnoVars, inputVars, timerVars, progressVars>>

NextBinary64 == Binary64Value

SpecBinary64 == InitBinary64 /\ [][NextBinary64]_vars

Init ==
    \/ InitSort \/ InitScreen \/ InitField \/ InitDeform \/ InitBasis
    \/ InitThreads \/ InitYesNo \/ InitInput \/ InitTimer \/ InitProgress
    \/ InitBinary64

Next ==
    \/ NextSort \/ NextScreen \/ NextField \/ NextDeform \/ NextBasis
    \/ NextThreads \/ NextYesNo \/ NextInput \/ NextTimer \/ NextProgress
    \/ NextBinary64

Spec == Init /\ [][Next]_vars

\* the operations that validate their arguments: screening_eig and the
\* accesses to a BackgroundField
SpecValidation == (InitScreen \/ InitField) /\ [][NextScreen \/ NextField]_vars

(***************************************************************************)
(* Properties of sort_eig                                                  *)
(***************************************************************************)
SortSize == Len(eigenvalues)

EigRow(m) == m[SortSize + 1]

\* output column j is input mode p[j]: its eigenvalue and its eigenvector
IsMatching(p, out, evals, evecs) ==
    \A j \in 1..Len(evals) :
        /\ out[Len(evals) + 1][j] = evals[p[j]]
        /\ \A r \in 1..Len(evals) : out[r][j] = evecs[r][p[j]]

\* the output position of input mode i under the matching p
PosOf(p, i) == CHOOSE j \in DOMAIN p : p[j] = i

SameMode(i, k) ==
    /\ eigenvalues[i] = eigenvalues[k]
    /\ \A r \in 1..SortSize : eigenvectors[r][i] = eigenvectors[r][k]

LexLeq(x, y) ==
    \/ FLess(x.re, y.re)
    \/ FEq(x.re, y.re) /\ ~FLess(y.im, x.im)

\* C1: adjacent output columns ascend lexicographically in (real part,
\* imaginary part); the imaginary part breaks ties of the real part.
C1_LexAscending ==
    sort_pc = "sorted" =>
        \A j \in 1..(SortSize - 1) :
            LexLeq(EigRow(matrix_eig)[j], EigRow(matrix_eig)[j + 1])

\* what sort_eig does on finite eigenvalues: adjacent output columns ascend
\* in the real part alone, and modes whose real parts are equal keep their
\* relative input order whatever their imaginary parts are
RealAscendingInputOrderOnTies ==
    sort_pc = "sorted" =>
        /\ \A j \in 1..(SortSize - 1) :
               ~FLess(EigRow(matrix_eig)[j + 1].re, EigRow(matrix_eig)[j].re)
        /\ \E p \in Perms(SortSize) :
               /\ IsMatching(p, matrix_eig, eigenvalues, eigenvectors)
               /\ \A i, k \in 1..SortSize :
                      (i < k /\ FEq(eigenvalues[i].re, eigenvalues[k].re))
                          => PosOf(p, i) < PosOf(p, k)

\* a sorted output in which two adjacent columns share the real part and the
\* first has the larger imaginary part, next to a column of another real part
C1_Witness ==
    /\ sort_pc = "sorted"
    /\ \E j \in 1..(SortSize - 1) :
           /\ FEq(EigRow(matrix_eig)[j].re, EigRow(matrix_eig)[j + 1].re)
           /\ FLess(EigRow(matrix_eig)[j + 1].im, EigRow(matrix_eig)[j].im)
    /\ \E j \in 1..(SortSize - 1) :
           FLess(EigRow(matrix_eig)[j].re, EigRow(matrix_eig)[j + 1].re)
    /\ ~IsMatching(Identity(SortSize), matrix_eig, eigenvalues, eigenvectors)

\* C2: the output has shape (n+1, n) and is a column permutation of the
\* input that keeps every eigenvalue with its own eigenvector.
C2_ColumnPermutation ==
    sort_pc = "sorted" =>
        /\ Len(matrix_eig) = SortSize + 1
        /\ \A r \in 1..(SortSize + 1) : Len(matrix_eig[r]) = SortSize
        /\ \E p \in Perms(SortSize) :
               IsMatching(p, matrix_eig, eigenvalues, eigenvectors)

\* a sort that moved columns of pairwise different modes with complex
\* eigenvector entries
C2_Witness ==
    /\ sort_pc = "sorted"
    /\ SortSize >= 3
    /\ \A i, k \in 1..SortSize : i # k => ~SameMode(i, k)
    /\ \E r, c \in 1..SortSize : ~FEq(eigenvectors[r][c].im, F(0))
    /\ ~IsMatching(Identity(SortSize), matrix_eig, eigenvalues, eigenvectors)

\* C3: sorting the jointly shuffled input always gives the matrix that
\* sorting the original input gives.
C3_ShuffleInvariant ==
    sort_pc = "shuffled" => matrix_eig2 = matrix_eig

\* what holds of the shuffle on finite eigenvalues: it changes nothing for
\* the inputs in which any two modes that share an eigenvalue real part are
\* the same mode (same eigenvalue and eigenvector)
ShuffleInvariantDistinctReal ==
    (/\ sort_pc = "shuffled"
     /\ \A i, k \in 1..SortSize :
            FEq(eigenvalues[i].re, eigenvalues[k].re) => SameMode(i, k))
        => matrix_eig2 = matrix_eig

\* the shuffled input sorted into another matrix than the original input,
\* though its eigenvalues are pairwise different: two of them share the
\* real part and differ in the imaginary part, and no two of the others
\* share the real part
C3_Witness ==
    /\ sort_pc = "shuffled"
    /\ matrix_eig2 # matrix_eig
    /\ \A i, k \in 1..SortSize : i # k => eigenvalues[i] # eigenvalues[k]
    /\ \E i, k \in 1..SortSize :
           /\ FEq(eigenvalues[i].re, eigenvalues[k].re)
           /\ FLess(eigenvalues[i].im, eigenvalues[k].im)
    /\ \E i, k \in 1..SortSize : FLess(eigenvalues[i].re, eigenvalues[k].re)

\* C4: sorting the returned matrix again returns it entry for entry.
C4_Idempotent ==
    sort_pc = "again" => matrix_eig2 = matrix_eig

\* a re-sort of a matrix that the first sort had to reorder and that holds
\* different modes of equal real part
C4_Witness ==
    /\ sort_pc = "again"
    /\ ~IsMatching(Identity(SortSize), matrix_eig, eigenvalues, eigenvectors)
    /\ \E i, k \in 1..SortSize :
           /\ i # k
           /\ FEq(eigenvalues[i].re, eigenvalues[k].re)
           /\ ~SameMode(i, k)

\* C5: input modes i < k whose eigenvalues are equal in both parts come out
\* with mode i's column before mode k's column.
C5_Stable ==
    sort_pc = "sorted" =>
        \E p \in Perms(SortSize) :
            /\ IsMatching(p, matrix_eig, eigenvalues, eigenvectors)
            /\ \A i, k \in 1..SortSize :
                   (i < k /\ eigenvalues[i] = eigenvalues[k])
                       => PosOf(p, i) < PosOf(p, k)

\* two modes of equal eigenvalue and different eigenvectors, in a sort that
\* moved some column
C5_Witness ==
    /\ sort_pc = "sorted"
    /\ \E i, k \in 1..SortSize :
           /\ i < k
           /\ eigenvalues[i] = eigenvalues[k]
           /\ ~SameMode(i, k)
    /\ ~IsMatching(Identity(SortSize), matrix_eig, eigenvalues, eigenvectors)
(***************************************************************************)
(* Properties of screening_eig                                             *)
(***************************************************************************)
ScrSize == Len(scr_in.check)

ScrInvalidModes == {i \in 1..ScrSize : ~scr_in.check[i]}

ScrValidModes == {i \in 1..ScrSize : scr_in.check[i]}

\* C6: after a successful call every invalid mode's whole column of the
\* returned matrix and its entry of every returned physical-quantity array
\* are NaN, and the returned tuple holds the arrays passed, in order.
C6_InvalidModesAreNaN ==
    scr_pc = "returned" =>
        /\ \A i \in ScrInvalidModes :
               /\ \A r \in 1..(ScrSize + 1) : scr_ret.matrix[r][i] = CNaN
               /\ \A k \in 1..Len(scr_ret.phys) : scr_ret.phys[k].data[i] = NaN
        /\ Len(scr_ret.phys) = Len(scr_in.phys)
        /\ \A k \in 1..Len(scr_in.phys) : scr_ret.phys[k].id = scr_in.phys[k].id
        /\ scr_ret.matrix = scr_matrix
        /\ scr_ret.phys = scr_phys

\* a successful call on three modes, valid and invalid ones, with two
\* physical-quantity arrays
C6_Witness ==
    /\ scr_pc = "returned"
    /\ ScrSize >= 3
    /\ ScrInvalidModes # {}
    /\ ScrValidModes # {}
    /\ Len(scr_in.phys) = 2

\* C7: after a successful call every valid mode's column and entries hold
\* their input values and every array has the shape it had.
C7_ValidModesUntouched ==
    scr_pc = "returned" =>
        /\ \A i \in ScrValidModes :
               /\ \A r \in 1..(ScrSize + 1) :
                      scr_ret.matrix[r][i] = scr_in.matrix[r][i]
               /\ \A k \in 1..Len(scr_in.phys) :
                      scr_ret.phys[k].data[i] = scr_in.phys[k].data[i]
        /\ NumRows(scr_ret.matrix) = NumRows(scr_in.matrix)
        /\ \A r \in 1..NumRows(scr_in.matrix) :
               Len(scr_ret.matrix[r]) = Len(scr_in.matrix[r])
        /\ \A k \in 1..Len(scr_in.phys) :
               Len(scr_ret.phys[k].data) = Len(scr_in.phys[k].data)

\* a successful call with an invalid mode between two valid ones
C7_Witness ==
    /\ scr_pc = "returned"
    /\ \E i \in ScrInvalidModes : (i - 1) \in ScrValidModes /\ (i + 1) \in ScrValidModes
    /\ Len(scr_in.phys) >= 1
    /\ scr_matrix # scr_in.matrix

ScrShapesAgree ==
    /\ NumRows(scr_in.matrix) = ScrSize + 1
    /\ NumCols(scr_in.matrix) = ScrSize
    /\ \A k \in 1..Len(scr_in.phys) : Len(scr_in.phys[k].data) = ScrSize

\* C8: the call ends with the shape-mismatch error (logged, exit status 1)
\* whenever the matrix's row count is not len(check)+1 or some
\* physical-quantity array's length is not len(check), and it does not when
\* the matrix is (size+1, size) and check and every array have length size.
C8_ShapeMismatchFails ==
    scr_pc \in {"returned", "exit1", "ValueError"} =>
        /\ (\/ NumRows(scr_in.matrix) # ScrSize + 1
            \/ \E k \in 1..Len(scr_in.phys) : Len(scr_in.phys[k].data) # ScrSize)
               => (scr_pc = "exit1" /\ scr_log = <<ErrInvalidShape>>)
        /\ ScrShapesAgree => (scr_pc # "exit1" /\ scr_log = <<>>)

\* the error raised for the second physical-quantity array alone
C8_Witness ==
    /\ scr_pc = "exit1"
    /\ NumRows(scr_in.matrix) = ScrSize + 1
    /\ NumCols(scr_in.matrix) = ScrSize
    /\ Len(scr_in.phys) = 2
    /\ Len(scr_in.phys[1].data) = ScrSize
    /\ Len(scr_in.phys[2].data) # ScrSize

\* C9: when the call ends with the shape-mismatch error no entry of the
\* matrix, of the mask or of a physical-quantity array has been modified.
C9_FailureLeavesInputs ==
    scr_pc = "exit1" =>
        /\ scr_matrix = scr_in.matrix
        /\ scr_check = scr_in.check
        /\ scr_phys = scr_in.phys
        /\ scr_ret = <<>>

\* the error raised for the last array while an invalid mode was waiting to
\* be overwritten in a well-shaped matrix and first array
C9_Witness ==
    /\ scr_pc = "exit1"
    /\ NumRows(scr_in.matrix) = ScrSize + 1
    /\ NumCols(scr_in.matrix) = ScrSize
    /\ ScrInvalidModes # {}
    /\ Len(scr_in.phys) = 2
    /\ Len(scr_in.phys[1].data) = ScrSize
    /\ scr_in.phys[1].dtype = "float64"
    /\ Len(scr_in.phys[2].data) # ScrSize
(***************************************************************************)
(* Properties of BackgroundField                                           *)
(***************************************************************************)
BfCalled == bf_pc # "off" /\ bf_call # <<>>

\* the types of the real numbers among the arguments of the model
RealNumberTypes == {"int", "float", "bool", "numpy.float64", "numpy.int64"}

\* the access was made with a float or an int, or takes no argument
BfNumericCall == bf_call.x = NoArg \/ IsFloatOrInt(bf_call.x)

BfNotSetFailure ==
    bf_pc = "exited" /\ bf_out.kind = "exit1" /\ bf_out.log = <<ErrNotSet>>

\* the access was made with a real number, or takes no argument
BfRealNumberCall == bf_call.x = NoArg \/ bf_call.x.type \in RealNumberTypes

\* what C10 says of an access: it ends with 'This attribute has not been
\* set.' and exit status 1 exactly when it is a second-derivative access on
\* an instance built without value_d2 or a first-derivative access on an
\* instance built without value_d, and returns otherwise, r_value, r_value_d
\* and r_value_d2 with a float
NotSetExactlyOnMissingDerivative ==
    /\ BfNotSetFailure <=>
           \/ bf_call.op \in {"value_d2", "r_value_d2"} /\ bf_field.value_d2 = "None"
           \/ bf_call.op \in {"value_d", "r_value_d"} /\ bf_field.value_d = "None"
    /\ ~BfNotSetFailure =>
           /\ bf_out.kind = "returned"
           /\ bf_pc = "alive"
           /\ bf_log = <<>>
    /\ (bf_call.op \in {"r_value", "r_value_d", "r_value_d2"} /\ ~BfNotSetFailure)
           => bf_out.holds = "float"

\* C10 as stated: for every real numeric x r_value and r_value_d succeed on
\* an instance built with value and value_d, and the access ends with 'This
\* attribute has not been set.' and exit status 1 exactly when the second
\* derivative is accessed without value_d2, or the first without value_d.
C10_RealNumbersNotSetExactly ==
    (BfCalled /\ BfRealNumberCall) => NotSetExactlyOnMissingDerivative

\* C10: with a float or int argument r_value always returns, and the access
\* ends with 'This attribute has not been set.' and exit status 1 exactly
\* when it is a second-derivative access (value_d2, r_value_d2) on an
\* instance built without value_d2 or a first-derivative access (value_d,
\* r_value_d) on an instance built without value_d; so an instance with
\* value_d and without value_d2 returns from r_value and r_value_d and fails
\* on exactly the second-derivative accesses.
C10_NotSetExactlyOnMissingDerivative ==
    (BfCalled /\ BfNumericCall) => NotSetExactlyOnMissingDerivative

\* r_value_d2(2) failing on the parabola built with value_d, without value_d2
C10_Witness ==
    /\ BfCalled
    /\ bf_field.value = "x**2"
    /\ bf_field.value_d = "2*x"
    /\ bf_field.value_d2 = "None"
    /\ bf_call = [op |-> "r_value_d2", x |-> [type |-> "float", v |-> 2]]
    /\ BfNotSetFailure
\* the real function each closure of Profiles computes on real arguments
RealProfile(func, v) ==
    CASE func = "x" -> v
      [] func = "x**2" -> v * v
      [] func = "2*x" -> 2 * v
      [] func = "2" -> 2
      [] func = "1" -> 1
      [] func = "0" -> 0

BfRealOps == {"r_value", "r_value_d", "r_value_d2"}

\* the closure an access evaluates, "None" if the instance has none
BfNeededFunc ==
    CASE bf_call.op \in {"r_value"} -> bf_field.value
      [] bf_call.op \in {"value_d", "r_value_d"} -> bf_field.value_d
      [] bf_call.op \in {"value_d2", "r_value_d2"} -> bf_field.value_d2

BfTypeFailure ==
    /\ bf_pc = "exited"
    /\ bf_out.kind = "exit1"
    /\ bf_out.holds = "none"
    /\ bf_log = <<ErrInvalidType>>

BfReturnedReal ==
    /\ bf_pc = "alive"
    /\ bf_out.kind = "returned"
    /\ bf_out.holds = "float"
    /\ bf_out.num = F(RealProfile(BfNeededFunc, bf_call.x.v))
    /\ bf_log = <<>>

\* the types of XArgs that hold a real number, and those that hold a number
NumberTypes == RealNumberTypes \cup {"complex"}

\* C11 as stated: r_value, r_value_d and r_value_d2 end with 'Invalid type of
\* the argument.' and exit status 1 whenever x is not a number, and for every
\* real number x with the needed function given they return the real part of
\* that function at complex(x, 0).
C11_RealNumbersEvaluate ==
    (BfCalled /\ bf_call.op \in BfRealOps) =>
        /\ bf_call.x.type \notin NumberTypes => BfTypeFailure
        /\ (bf_call.x.type \in RealNumberTypes /\ BfNeededFunc # "None")
               => BfReturnedReal

\* C11 amended: the three evaluations end with 'Invalid type of the
\* argument.' and exit status 1 whenever x is not an instance of float or
\* int (so also for a complex and for a numpy.int64), and for an instance of
\* float or int (bool and numpy.float64 included) with the needed function
\* given they return the real part of that function at complex(x, 0).
C11_FloatOrIntEvaluate ==
    (BfCalled /\ bf_call.op \in BfRealOps) =>
        /\ bf_call.x.type \notin {"int", "float", "bool", "numpy.float64"}
               => BfTypeFailure
        /\ (/\ bf_call.x.type \in {"int", "float", "bool", "numpy.float64"}
            /\ BfNeededFunc # "None")
               => BfReturnedReal

\* r_value_d(numpy.float64(2)) on the parabola returned 4.0
C11_Witness ==
    /\ BfCalled
    /\ bf_field.value = "x**2"
    /\ bf_field.value_d = "2*x"
    /\ bf_call = [op |-> "r_value_d", x |-> [type |-> "numpy.float64", v |-> 2]]
    /\ bf_out.kind = "returned"
    /\ bf_out.num = F(4)

(***************************************************************************)
(* Order of the diagnostic and the abort                                   *)
(***************************************************************************)
\* the failed validation of an access to the BackgroundField, as the
\* arguments show it: the diagnostic it must give, <<>> if none fails
BfViolated ==
    IF bf_call.op \in BfRealOps
          /\ bf_call.x.type \notin {"int", "float", "bool", "numpy.float64"}
    THEN <<ErrInvalidType>>
    ELSE IF bf_call.op # "r_value" /\ BfNeededFunc = "None"
    THEN <<ErrNotSet>>
    ELSE <<>>

\* the trace of a call whose validation failed with diagnostic err: the
\* record of the logger first, the exit after it, and nothing else
AbortedWith(trace, err) == trace = <<LogEvent(err), ExitEvent(1)>>

\* no event of the trace hands a value to the caller
NothingReturned(trace) == \A i \in 1..Len(trace) : trace[i].ev # "return"

\* C12: when an access to a BackgroundField (r_value, r_value_d, r_value_d2,
\* value_d, value_d2) or screening_eig finds a validation failure (argument
\* not a float or int, derivative not given, shapes that disagree), the
\* error record naming the failed check is logged first and the exit with
\* status 1 comes after it, and the call returns nothing to its caller.
C12_LoggedThenAborted ==
    /\ (BfCalled /\ BfViolated # <<>>) =>
           /\ AbortedWith(bf_out.trace, BfViolated[1])
           /\ NothingReturned(bf_out.trace)
           /\ bf_out.holds = "none"
           /\ bf_pc = "exited"
    /\ (scr_pc \notin {"off", "ready"} /\ ~ScrShapesAgree) =>
           /\ AbortedWith(scr_trace, ErrInvalidShape)
           /\ NothingReturned(scr_trace)
           /\ scr_ret = <<>>
           /\ scr_pc = "exit1"

\* value_d2 read on an instance built without it: logged, then exited
C12_Witness ==
    /\ BfCalled
    /\ bf_call.op = "value_d2"
    /\ bf_field.value_d2 = "None"
    /\ Len(bf_out.trace) = 2
    /\ bf_out.trace[1].ev = "log"
    /\ bf_out.trace[1].msg = "This attribute has not been set."
    /\ bf_out.trace[2].ev = "exit"
(***************************************************************************)
(* Properties of the complex coordinate                                    *)
(***************************************************************************)
DeformCalled(op) == sd_pc = "built" /\ sd_call # <<>> /\ sd_call.op = op

\* the arguments the coordinate was built from
DeformArgs == sd_coord.value

DeformAllZero ==
    /\ DeformArgs.alpha = RatInt(0)
    /\ DeformArgs.beta_0 = RatInt(0)
    /\ DeformArgs.beta_1 = RatInt(0)

\* C13: for a coordinate built by init_complex_coordinate, the value
\* check_spectral_deform returns is true if and only if at least one of
\* alpha, beta_0, beta_1 is not zero, whatever y_start and y_end are.
C13_CheckIffSomeParamNonzero ==
    DeformCalled("check_spectral_deform") =>
        /\ sd_out.holds = "bool"
        /\ sd_out.b <=> (\/ DeformArgs.alpha # RatInt(0)
                         \/ DeformArgs.beta_0 # RatInt(0)
                         \/ DeformArgs.beta_1 # RatInt(0))

\* the check returned true for a coordinate whose only nonzero parameter is
\* the last one
C13_Witness ==
    /\ DeformCalled("check_spectral_deform")
    /\ DeformArgs.alpha = RatInt(0)
    /\ DeformArgs.beta_0 = RatInt(0)
    /\ DeformArgs.beta_1 # RatInt(0)
    /\ sd_out.b

\* s + k
Shifted(s_pos, k) == CQAdd(s_pos, CQReal(RatInt(k)))

\* the values of the closure c at s, s+1, s+2, s+3, s+4
Samples(c, s_pos) ==
    << DeformApply(c, s_pos), DeformApply(c, Shifted(s_pos, 1)),
       DeformApply(c, Shifted(s_pos, 2)), DeformApply(c, Shifted(s_pos, 3)),
       DeformApply(c, Shifted(s_pos, 4)) >>

\* the forward differences of step 1 of a sequence of values
Differences(p) == [i \in 1..(Len(p) - 1) |-> CQSub(p[i + 1], p[i])]

\* c is a polynomial of degree at most 3 along s, s+1, ..., s+4: its fourth
\* forward difference is zero
AtMostCubic(c, s_pos) ==
    \A p \in {Samples(c, s_pos)} :
    \A d1 \in {Differences(p)} :
    \A d2 \in {Differences(d1)} :
    \A d3 \in {Differences(d2)} :
        Differences(d3)[1] = NoPoint

\* z is the derivative at s of the polynomial of degree at most 3 that takes
\* the values of c at s, s+1, s+2, s+3 (Newton's forward formula:
\* p'(s) = D1 - D2/2 + D3/3 with the forward differences Dk at s)
IsDerivativeOf(z, c, s_pos) ==
    \A p \in {Samples(c, s_pos)} :
    \A d1 \in {Differences(p)} :
    \A d2 \in {Differences(d1)} :
    \A d3 \in {Differences(d2)} :
        z = CQAdd(CQSub(d1[1], CQDivReal(d2[1], RatInt(2))),
                  CQDivReal(d3[1], RatInt(3)))

\* C14: for every y_start, y_end, alpha, beta_0, beta_1 (all zero included),
\* value is a polynomial of degree at most 3 in s, what value_d returns at s
\* is the derivative of value at s, and what value_d2 returns at s is the
\* derivative of value_d at s.
C14_DerivativesExact ==
    /\ DeformCalled("value_d") =>
           /\ AtMostCubic(sd_coord.value, sd_call.s)
           /\ IsDerivativeOf(sd_out.z, sd_coord.value, sd_call.s)
    /\ DeformCalled("value_d2") =>
           /\ AtMostCubic(sd_coord.value_d, sd_call.s)
           /\ IsDerivativeOf(sd_out.z, sd_coord.value_d, sd_call.s)

\* value_d2 was evaluated off the real axis on a coordinate with all three
\* parameters nonzero, and the result is not zero
C14_Witness ==
    /\ DeformCalled("value_d2")
    /\ DeformArgs.alpha # RatInt(0)
    /\ DeformArgs.beta_0 # RatInt(0)
    /\ DeformArgs.beta_1 # RatInt(0)
    /\ sd_call.s.im # RatInt(0)
    /\ sd_out.z # NoPoint

\* y_start + (y_end - y_start)(s + 1)/2, part by part
AffineMap(y_start, y_end, s_pos) ==
    CQ(RatAdd(y_start,
              RatDiv(RatMul(RatSub(y_end, y_start), RatAdd(s_pos.re, RatInt(1))),
                     RatInt(2))),
       RatDiv(RatMul(RatSub(y_end, y_start), s_pos.im), RatInt(2)))

\* C15: with alpha = beta_0 = beta_1 = 0, value(s) is
\* y_start + (y_end - y_start)(s + 1)/2 for real and complex s, so a real s
\* gives a real value, and check_spectral_deform returns false.
C15_AllZeroIsAffine ==
    DeformAllZero =>
        /\ DeformCalled("value") =>
               /\ sd_out.z = AffineMap(DeformArgs.y_start, DeformArgs.y_end, sd_call.s)
               /\ sd_call.s.im = RatInt(0) => sd_out.z.im = RatInt(0)
        /\ DeformCalled("check_spectral_deform") => ~sd_out.b

\* value was evaluated at a complex point on a coordinate with all
\* parameters zero
C15_Witness ==
    /\ DeformAllZero
    /\ DeformCalled("value")
    /\ sd_call.s.im # RatInt(0)
    /\ sd_call.s.re # RatInt(0)
(***************************************************************************)
(* Properties of the basis functions                                       *)
(***************************************************************************)
BasisReturned(fn) == cb_pc = "returned" /\ cb_call = fn

BasisEndpoint == cb_s \in {RatInt(1), RatInt(-1)}

\* C16 as stated: for every degree n, heinrichs(n, s) and heinrichs_d(n, s)
\* at s = 1 and at s = -1 return a finite value, neither NaN nor Inf.
C16_FiniteAtEndpoints ==
    ((BasisReturned("heinrichs") \/ BasisReturned("heinrichs_d")) /\ BasisEndpoint)
        => IsFinite(cb_out)

\* a Chebyshev value the caller can use: a number, exact or rounded
Defined(x) == x.k \in {"num", "approx"}

\* C17: for every degree n and every s at which the Chebyshev values T, T',
\* T'', T''' that enter it are defined, each Heinrichs order returns the
\* product-rule expansion of (1 - s^2)T: (1-s^2)T; (1-s^2)T' - 2sT;
\* (1-s^2)T'' - 4sT' - 2T; (1-s^2)T''' - 6sT'' - 6T'.
C17_ProductRule ==
    LET T == chebyshev(cb_n, cb_s)
        T1 == chebyshev_d(cb_n, cb_s)
        T2 == chebyshev_d2(cb_n, cb_s)
        T3 == chebyshev_d3(cb_n, cb_s)
        w == FlSub(FlInt(1), FlMul(Exact(cb_s), Exact(cb_s)))
        sT(k, x) == FlMul(FlMul(FlInt(k), Exact(cb_s)), x)
    IN  /\ (BasisReturned("heinrichs") /\ Defined(T))
               => cb_out = FlMul(w, T)
        /\ (BasisReturned("heinrichs_d") /\ Defined(T) /\ Defined(T1))
               => cb_out = FlSub(FlMul(w, T1), sT(2, T))
        /\ (BasisReturned("heinrichs_d2") /\ Defined(T) /\ Defined(T1) /\ Defined(T2))
               => cb_out = FlSub(FlSub(FlMul(w, T2), sT(4, T1)), FlMul(FlInt(2), T))
        /\ (BasisReturned("heinrichs_d3") /\ Defined(T1) /\ Defined(T2) /\ Defined(T3))
               => cb_out = FlSub(FlSub(FlMul(w, T3), sT(6, T2)), FlMul(FlInt(6), T1))

\* heinrichs_d3(3, 0.5) returned -18, as in its docstring
C17_Witness ==
    /\ BasisReturned("heinrichs_d3")
    /\ cb_n = 3
    /\ cb_s = Rat(1, 2)
    /\ cb_out = FlInt(-18)

\* C18: for every degree n and every s of the domain other than +1 and -1,
\* (1 - s^2)*chebyshev_d2 = s*chebyshev_d - n^2*chebyshev and
\* (1 - s^2)*chebyshev_d3 = 3s*chebyshev_d2 + (1 - n^2)*chebyshev_d.
C18_ChebyshevEquation ==
    LET T == chebyshev(cb_n, cb_s)
        T1 == chebyshev_d(cb_n, cb_s)
        T2 == chebyshev_d2(cb_n, cb_s)
        w == Exact(RatSub(RatInt(1), RatMul(cb_s, cb_s)))
    IN  /\ (BasisReturned("chebyshev_d2") /\ ~BasisEndpoint) =>
               /\ IsRational(cb_out)
               /\ FlMul(w, cb_out)
                      = FlSub(FlMul(Exact(cb_s), T1), FlMul(FlInt(cb_n * cb_n), T))
        /\ (BasisReturned("chebyshev_d3") /\ ~BasisEndpoint) =>
               /\ IsRational(cb_out)
               /\ FlMul(w, cb_out)
                      = FlAdd(FlMul(FlMul(FlInt(3), Exact(cb_s)), T2),
                              FlMul(FlInt(1 - cb_n * cb_n), T1))

\* chebyshev_d3(3, 0.5) returned 24, as in its docstring
C18_Witness ==
    /\ BasisReturned("chebyshev_d3")
    /\ cb_n = 3
    /\ cb_s = Rat(1, 2)
    /\ cb_out = FlInt(24)
(***************************************************************************)
(* Properties of concurrent invocations                                    *)
(***************************************************************************)
ThreadsOn == component = "threads"

\* the records of the console written by thread t, in order
RECURSIVE WrittenBy(_, _)
WrittenBy(stream, t) ==
    IF stream = <<>> THEN <<>>
    ELSE (IF Head(stream).thread = t
          THEN <<[level |-> Head(stream).level, msg |-> Head(stream).msg]>>
          ELSE <<>>) \o WrittenBy(Tail(stream), t)

ThreadEnded(t) == lg_pc[t] \in {"returned", "exited"}

\* C20 as stated: the invocations write no state they share (the registry of
\* loggers stays as it was), and under every interleaving each invocation
\* ends as it does when run alone and writes the records it writes then.
C20_NoSharedStateAsAlone ==
    ThreadsOn =>
        /\ \A n \in LoggerNames : lg_loggers[n] = NoLogger
        /\ \A t \in Threads :
               ThreadEnded(t) =>
                   /\ lg_pc[t] = "exited" <=> RunAlone(lg_local[t].inv).ended = "exit1"
                   /\ WrittenBy(lg_stream, t) = RunAlone(lg_local[t].inv).log

\* two screening_eig invocations, only one of which fails its validation:
\* both found the logger without handler, both added one, and the single
\* diagnostic was written twice
C20_Witness ==
    /\ ThreadsOn
    /\ \E t, u \in Threads :
           /\ t # u
           /\ lg_local[t].inv = [op |-> "screening_eig", name |-> "screening_eig", bad |-> TRUE]
           /\ lg_local[u].inv = [op |-> "screening_eig", name |-> "screening_eig", bad |-> FALSE]
           /\ ThreadEnded(t)
           /\ Len(lg_loggers["screening_eig"].handlers) = 2
           /\ Len(WrittenBy(lg_stream, t)) = 2
           /\ Len(RunAlone(lg_local[t].inv).log) = 1
(***************************************************************************)
(* The check against the map itself                                        *)
(***************************************************************************)
\* value(s) is y_start + (y_end - y_start)(s + 1)/2 at every point of the
\* model; value is a polynomial of degree at most 3, so agreeing at the six
\* distinct points is agreeing everywhere
CoincidesWithAffine ==
    \A s_pos \in DeformPoints :
        DeformApply(sd_coord.value, s_pos)
            = AffineMap(DeformArgs.y_start, DeformArgs.y_end, s_pos)

\* C21: check_spectral_deform returns false exactly when value(s) is the
\* affine map y_start + (y_end - y_start)(s + 1)/2 for all s, and true
\* exactly when value(s) differs from it for some s.
C21_CheckIffMapDeformed ==
    DeformCalled("check_spectral_deform") => (sd_out.b <=> ~CoincidesWithAffine)

\* the check returned true for a coordinate with alpha # 0 and
\* beta_0 = beta_1 = 0, whose value is the affine map at every point
C21_Witness ==
    /\ DeformCalled("check_spectral_deform")
    /\ DeformArgs.alpha # RatInt(0)
    /\ DeformArgs.beta_0 = RatInt(0)
    /\ DeformArgs.beta_1 = RatInt(0)
    /\ sd_out.b
    /\ CoincidesWithAffine
(***************************************************************************)
(* Properties of exe_yes_continue                                          *)
(***************************************************************************)
\* the lines of the model that say yes, and those that say no, once case
\* and surrounding whitespace are ignored
YesAnswers ==
    { <<"y">>, <<"y", "e", "s">>, <<"Y", "E", "S">>, <<" ", "Y", "e", "s", "\t">>,
      <<"y", " ">>, <<VerticalTab, "y">>, <<"y", "e", "s", NoBreakSpace>> }

NoAnswers ==
    { <<"n">>, <<"N", "o">>, <<"\t", "n", "o", " ">>,
      <<"U+3000", "N", "O", UnitSeparator>> }

\* what the answers read so far must have caused, one after the other
RECURSIVE AnswerEvents(_)
AnswerEvents(read) ==
    IF read = <<>> THEN <<>>
    ELSE (IF Head(read) \in YesAnswers THEN <<CallEvent>>
          ELSE IF Head(read) \in NoAnswers
          THEN <<LogEvent(InfoQuit), ExitEvent(0)>>
          ELSE <<LogEvent(ErrInvalidInput)>>) \o AnswerEvents(Tail(read))

YesBeforeFirstNo(read) ==
    {i \in 1..Len(read) :
        read[i] \in YesAnswers /\ \A j \in 1..(i - 1) : read[j] \notin NoAnswers}

\* C22: the wrapped function runs once before anything is read, and once
\* more after each yes answer; it has run 1 + (number of yes answers before
\* the first no) times.  A no answer logs 'Quit' and exits with status 0,
\* after which nothing is read or run; any other answer logs 'Invalid
\* input' and prompts again without running the function.
C22_OncePlusOncePerYes ==
    yn_pc \in {"input", "exited"} =>
        /\ yn_trace = <<CallEvent>> \o AnswerEvents(yn_read)
        /\ yn_count = 1 + Cardinality(YesBeforeFirstNo(yn_read))
        /\ yn_count = Cardinality({i \in 1..Len(yn_trace) : yn_trace[i] = CallEvent})
        /\ yn_pc = "exited" <=> (yn_read # <<>> /\ yn_read[Len(yn_read)] \in NoAnswers)
        /\ \A i \in 1..(Len(yn_read) - 1) : yn_read[i] \notin NoAnswers

\* the function has run twice: a yes in capitals and whitespace, then an
\* invalid answer, then a no that ended the process
C22_Witness ==
    /\ yn_pc = "exited"
    /\ yn_read = << <<" ", "Y", "e", "s", "\t">>, <<"y", " ", "e", "s">>,
                    <<"U+3000", "N", "O", UnitSeparator>> >>
    /\ yn_count = 2
(***************************************************************************)
(* Properties of input_value_within                                        *)
(***************************************************************************)
QuitLines == { <<"q">>, <<"\t", "Q", " ">>, <<"q", VerticalTab>> }

\* the numbers the lines of the model write, for int and for float
WrittenInt ==
    { << <<"5">>, IntNum(5) >>, << <<"-", "3">>, IntNum(-3) >>,
      << <<" ", "1", "2", " ">>, IntNum(12) >>, << <<"+", "2">>, IntNum(2) >>,
      << <<"0", "0", "7">>, IntNum(7) >>, << <<VerticalTab, "5">>, IntNum(5) >>,
      << <<FileSeparator, "2", NoBreakSpace>>, IntNum(2) >> }

WrittenFloat ==
    { << <<"5">>, Number("float", 1, <<"5">>, 0) >>,
      << <<"-", "3">>, Number("float", -1, <<"3">>, 0) >>,
      << <<" ", "1", "2", " ">>, Number("float", 1, <<"1", "2">>, 1) >>,
      << <<"1", ".", "5">>, Number("float", 1, <<"1", "5">>, 0) >>,
      << <<".", "5">>, Number("float", 1, <<"5">>, -1) >>,
      << <<"+", "2">>, Number("float", 1, <<"2">>, 0) >>,
      << <<"n", "a", "n">>, FloatNaN >>,
      << <<"0", "0", "7">>, Number("float", 1, <<"7">>, 0) >>,
      << <<"1", "e", "0">>, Number("float", 1, <<"1">>, 0) >>,
      << <<"2", "E", "-", "1">>, Number("float", 1, <<"2">>, -1) >>,
      << <<VerticalTab, "5">>, Number("float", 1, <<"5">>, 0) >>,
      << <<FileSeparator, "2", NoBreakSpace>>, Number("float", 1, <<"2">>, 0) >>,
      << <<"U+2003", "1", ".", "5", NextLine>>, Number("float", 1, <<"1", "5">>, 0) >> }

Written == IF iv_args.cast = "int" THEN WrittenInt ELSE WrittenFloat

Castable(line) == \E w \in Written : w[1] = line

ValueOf(line) == (CHOOSE w \in Written : w[1] = line)[2]

\* ten times a number of Written or a bound of the call, all of them
\* multiples of a tenth below a hundred
TimesTen(v) ==
    IF v.digits = <<>> THEN 0
    ELSE v.sgn * DigitsValue(v.digits) * Pow10(v.e + 2 - Len(v.digits))

\* min_value <= v <= max_value for the finite bounds of the call
Within(v) ==
    /\ v.k = "num"
    /\ TimesTen(iv_args.min_value) <= TimesTen(v)
    /\ TimesTen(v) <= TimesTen(iv_args.max_value)

Accepted(line) == line \notin QuitLines /\ Castable(line) /\ Within(ValueOf(line))

RECURSIVE ValueEvents(_)
ValueEvents(read) ==
    IF read = <<>> THEN <<>>
    ELSE (IF Head(read) \in QuitLines THEN <<LogEvent(InfoQuit), ExitEvent(0)>>
          ELSE IF ~Castable(Head(read)) THEN <<LogEvent(ErrInvalidInput)>>
          ELSE IF Within(ValueOf(Head(read))) THEN <<ReturnEvent>>
          ELSE <<LogEvent(ErrOutOfRange)>>) \o ValueEvents(Tail(read))

\* C23: input_value_within returns only the cast of the first line that
\* casts and lies in [min_value, max_value]; a line out of range logs 'Out
\* of range', a line that does not cast logs 'Invalid input', and both
\* prompt again; 'q' in any case logs 'Quit' and exits with status 0, and
\* nothing is returned after it.
C23_ReturnsFirstValueInRange ==
    iv_pc # "off" =>
        /\ iv_trace = ValueEvents(iv_read)
        /\ \A i \in 1..(Len(iv_read) - 1) :
               iv_read[i] \notin QuitLines /\ ~Accepted(iv_read[i])
        /\ iv_pc = "returned" <=> (iv_read # <<>> /\ Accepted(iv_read[Len(iv_read)]))
        /\ iv_pc = "returned" =>
               /\ iv_ret = ValueOf(iv_read[Len(iv_read)])
               /\ Within(iv_ret)
        /\ iv_pc = "exited" <=> (iv_read # <<>> /\ iv_read[Len(iv_read)] \in QuitLines)
        /\ iv_pc = "exited" =>
               /\ iv_ret = NoNum
               /\ \A i \in 1..Len(iv_trace) : iv_trace[i] # ReturnEvent

\* float was the cast: nan was out of range, a line with whitespace inside
\* the numeral invalid, and 1.5 between two whitespace characters was
\* returned as the upper bound itself
C23_Witness ==
    /\ iv_pc = "returned"
    /\ iv_args.cast = "float"
    /\ iv_args.max_value = Number("float", 1, <<"1", "5">>, 0)
    /\ iv_read = << <<"n", "a", "n">>, <<"2", UnitSeparator, "2">>,
                    <<"U+2003", "1", ".", "5", NextLine>> >>
    /\ iv_ret = Number("float", 1, <<"1", "5">>, 0)
(***************************************************************************)
(* Properties of DefaultTimer                                              *)
(***************************************************************************)
\* the calls before the i-th one that set or reset the lap state
LapOrStartBefore(i) == {j \in 1..(i - 1) : tm_calls[j].op \in {"lap", "start"}}

LastOf(indices) == CHOOSE j \in indices : \A k \in indices : k <= j

\* C24: in any sequence of start(), show(), end() and lap() calls, lap()
\* returns None exactly when no lap() was made since construction or since
\* the most recent start(); every other lap() returns the time since the
\* preceding lap(), which is not negative.  show() and end() leave the lap
\* state as it was.
C24_LapSinceLastLap ==
    \A i \in 1..Len(tm_calls) :
        /\ tm_calls[i].op = "lap" =>
               IF LapOrStartBefore(i) = {} \/ tm_calls[LastOf(LapOrStartBefore(i))].op = "start"
               THEN tm_calls[i].ret = None
               ELSE /\ ~tm_calls[i].ret.none
                    /\ tm_calls[i].ret.t = tm_calls[i].now - tm_calls[LastOf(LapOrStartBefore(i))].now
                    /\ tm_calls[i].ret.t >= 0
        /\ tm_calls[i].op \in {"show", "end"} =>
               tm_calls[i].split = (IF i = 1 THEN None ELSE tm_calls[i - 1].split)

\* lap, start, lap, lap with time passing in between: None, then None
\* again after the start, then the time between the last two laps
C24_Witness ==
    /\ Len(tm_calls) = 4
    /\ [i \in 1..4 |-> tm_calls[i].op] = <<"lap", "start", "lap", "lap">>
    /\ tm_calls[1].ret = None
    /\ tm_calls[3].ret = None
    /\ tm_calls[3].now > tm_calls[1].now
    /\ tm_calls[4].ret = Some(2)
(***************************************************************************)
(* Properties of ProgressBar                                               *)
(***************************************************************************)
BarWarned == BarLog("WARNING", "Progress bar has not been started.")

BarStarted == BarLog("INFO", "Start")

Has(events, e) == \E n \in 1..Len(events) : events[n] = e

\* neither start() nor an update() that started the bar came before the
\* k-th entry of pb_calls
NotStartedBefore(k) ==
    \A j \in 1..(k - 1) :
        pb_calls[j].op # "start" /\ ~Has(pb_calls[j].events, BarStarted)

ValidUpdate(k) ==
    pb_calls[k].i >= 0 /\ pb_calls[k].i + 1 <= pb_bar.num_calc

\* C25: update(i_calc, num_process) with valid arguments on a bar that was
\* not started logs the warning 'Progress bar has not been started.' and
\* starts the bar (the 0/num_calc line) instead of printing a progress
\* line; update() with i_calc < 0 or i_calc + 1 > num_calc logs 'Invalid
\* argument' and exits with status 1.
C25_UpdateStartsUnstartedBar ==
    \A k \in 1..Len(pb_calls) :
        pb_calls[k].op = "update" =>
            IF ValidUpdate(k)
            THEN NotStartedBefore(k) =>
                     pb_calls[k].events =
                         <<BarWarned, BarStarted,
                           BarPrint("", 0, 0, pb_bar.num_calc, Zero, Zero)>>
            ELSE pb_calls[k].events
                     = <<BarLog("ERROR", "Invalid argument"), BarExit(1)>>

\* update(0, 2) was the first call on a bar of three calculations and did
\* nothing at all
C25_Witness ==
    /\ pb_bar.num_calc = 3
    /\ Len(pb_calls) = 2
    /\ pb_calls[2] = BarCall("update", 0, 2, <<>>)
    /\ pb_pc = "alive"

\* the events of the entries k..Len(pb_calls), in order
RECURSIVE EventsFrom(_)
EventsFrom(k) ==
    IF k > Len(pb_calls) THEN <<>> ELSE pb_calls[k].events \o EventsFrom(k + 1)

Printed(events) == SelectSeq(events, LAMBDA e : e.ev = "print")

\* start() and then update(0, p), update(1, p), ... in this order with one
\* p are all the calls made so far
InOrderRun ==
    /\ Len(pb_calls) >= 2
    /\ pb_calls[2].op = "start"
    /\ \A k \in 3..Len(pb_calls) :
           /\ pb_calls[k].op = "update"
           /\ pb_calls[k].i = k - 3
           /\ pb_calls[k].p = pb_calls[Len(pb_calls)].p

\* C29: on a started bar of N >= 1 calculations, update(i, p) for
\* i = 0, ..., N-1 in this order with one p >= 1 never ends the process,
\* prints a line exactly on the calls where i+1 is a multiple of p or
\* i+1 = N, and logs 'End', after the 'Finished' line, once: in
\* update(N-1, p).  The filled cells of the printed lines are between 0 and
\* 10 and never decrease.
C29_InOrderRunCompletes ==
    InOrderRun /\ Len(pb_calls) - 2 <= pb_bar.num_calc =>
        /\ pb_pc = "alive"
        /\ \A k \in 3..Len(pb_calls) :
               /\ ~Has(pb_calls[k].events, BarExit(1))
               /\ Printed(pb_calls[k].events) # <<>>
                      <=> \/ (pb_calls[k].i + 1) % pb_calls[k].p = 0
                          \/ pb_calls[k].i + 1 = pb_bar.num_calc
               /\ Len(Printed(pb_calls[k].events)) <= 1
               /\ Has(pb_calls[k].events, BarLog("INFO", "End"))
                      <=> pb_calls[k].i = pb_bar.num_calc - 1
               /\ pb_calls[k].i = pb_bar.num_calc - 1 =>
                      /\ Len(pb_calls[k].events) = 2
                      /\ pb_calls[k].events[1].ev = "print"
                      /\ pb_calls[k].events[1].msg = "Finished"
                      /\ pb_calls[k].events[2] = BarLog("INFO", "End")
        /\ LET lines == Printed(EventsFrom(2))
           IN  \A n \in 1..Len(lines) :
                   /\ lines[n].filled \in 0..bar_width
                   /\ n > 1 => lines[n - 1].filled <= lines[n].filled

\* a whole run with N = 3 and p = 2: nothing printed at i = 0, a progress
\* line at i = 1, the 'Finished' line and 'End' at i = 2
C29_Witness ==
    /\ InOrderRun
    /\ pb_bar.num_calc = 3
    /\ Len(pb_calls) = 5
    /\ pb_calls[5].p = 2
    /\ pb_calls[3].events = <<>>
    /\ Len(pb_calls[4].events) = 1
    /\ pb_calls[4].events[1].filled = 6
    /\ Has(pb_calls[5].events, BarLog("INFO", "End"))
(***************************************************************************)
(* Failure and composition of screening_eig                                *)
(***************************************************************************)
ScrEnded == scr_pc \in {"returned", "exit1", "ValueError"}

ScrInputsIntact == scr_matrix = scr_in.matrix /\ scr_phys = scr_in.phys

\* C26: for arrays of any shape and element type the call either fails
\* before it has modified any entry of any input, or completes and
\* returns; every input that passes the shape validation is processed to
\* completion.
C26_FailsBeforeWritingOrReturns ==
    ScrEnded =>
        /\ scr_pc = "returned" \/ ScrInputsIntact
        /\ ScrShapesAgree => scr_pc = "returned"

\* the call ended with ValueError on an integer array after the column of
\* an invalid mode had been overwritten in the matrix
C26_Witness ==
    /\ scr_pc = "ValueError"
    /\ ScrShapesAgree
    /\ \E i \in 1..ScrSize :
           /\ ~scr_in.check[i]
           /\ scr_matrix[1][i] = CNaN
           /\ scr_in.matrix[1][i] # CNaN
    /\ scr_ret = <<>>
\* the mask m1 AND m2 of the two calls
BothMasks == [i \in 1..ScrSize |-> scr_in.check[i] /\ scr_again.check[i]]

\* C27: screening with m1 and then screening the result with m2 leaves the
\* matrix and the physical-quantity arrays as a single screening of the
\* inputs with m1 AND m2 does (NaN being one value); screening twice with
\* one mask is screening once, and the order of m1 and m2 does not matter.
C27_MasksComposeByConjunction ==
    scr_pc = "again" =>
        LET single == screening_eig(scr_in.matrix, BothMasks, scr_in.phys)
            other_first == screening_eig(scr_in.matrix, scr_again.check, scr_in.phys)
            other_then == screening_eig(other_first.matrix, scr_in.check, other_first.phys)
        IN  /\ scr_again.pc = single.pc
            /\ scr_matrix = single.matrix
            /\ scr_phys = single.phys
            /\ scr_again.pc = "returned" =>
                   /\ scr_again.ret = single.ret
                   /\ other_first.pc = "returned" /\ other_then.pc = "returned"
                   /\ other_then.ret = scr_again.ret
            /\ scr_again.check = scr_in.check =>
                   scr_matrix = scr_ret.matrix /\ scr_phys = scr_ret.phys

\* two different masks on three modes with a physical-quantity array: each
\* call overwrote a mode the other left, and one mode stayed valid
C27_Witness ==
    /\ scr_pc = "again"
    /\ scr_again.pc = "returned"
    /\ ScrSize = 3
    /\ Len(scr_in.phys) >= 1
    /\ \E i, j, k \in 1..3 :
           /\ ~scr_in.check[i] /\ scr_again.check[i]
           /\ scr_in.check[j] /\ ~scr_again.check[j]
           /\ scr_in.check[k] /\ scr_again.check[k]
           /\ scr_matrix[1][i] = CNaN /\ scr_matrix[1][j] = CNaN
           /\ scr_matrix[1][k] = scr_in.matrix[1][k]
           /\ scr_ret.matrix[1][j] # CNaN
\* value(s_pos) was called on the binary64 coordinate at the end s_pos,
\* given as a float or as a complex number
EndCalled(s_pos) == b64_pc = "built" /\ b64_call # <<>> /\ PyEq(b64_call.s, s_pos)

\* value(s_pos) returned a number equal to y
EndIs(y) == b64_call.ret.raised = "" /\ PyEq(b64_call.ret.num, y)

\* C28: the contour keeps its ends: value(-1) is y_start and value(1) is
\* y_end exactly, with imaginary part zero, for every y_start, y_end, alpha,
\* beta_0 and beta_1.
C28_ContourKeepsEnds ==
    /\ EndCalled(B64(-1, 0)) => EndIs(b64_coord.y_start)
    /\ EndCalled(B64(1, 0)) => EndIs(b64_coord.y_end)

\* value(1) of the coordinate from 1.0 to 2^-60 is 0: y_end - y_start rounds
\* to -1.0
C28_Witness ==
    /\ EndCalled(B64(1, 0))
    /\ b64_coord.y_start = B64(1, 0)
    /\ b64_coord.y_end = B64(1, -60)
    /\ EndIs(B64(0, 0))

\* what holds at the two ends: value(-1) is y_start, value(1) is
\* y_start + (y_end - y_start) with both operations rounded, and the
\* imaginary part is zero
EndsUpToRounding ==
    /\ EndCalled(B64(-1, 0)) => EndIs(b64_coord.y_start)
    /\ EndCalled(B64(1, 0)) =>
           EndIs(B64Add(b64_coord.y_start,
                        B64Sub(b64_coord.y_end, b64_coord.y_start)))
=============================================================================
